---------------------------- MODULE Spec2Model ----------------------------
(***************************************************************************)
(* Flash image layout engine of gvrun/gapylib: the two-phase build         *)
(* (set_content on every section, then finalize on every section) of a     *)
(* Flash holding ROM, app-binary, partition-table-v2 and WriteFs sections. *)
(*                                                                         *)
(* Representation                                                          *)
(*  - a Python int that takes part in bitwise CRC arithmetic is a          *)
(*    little-endian sequence of bits (index 1 = bit 0) of any length, as   *)
(*    Python ints are unbounded;                                           *)
(*  - a CStruct scalar field holds the bytes struct.pack wrote into it     *)
(*    (little-endian), an offset or a size is a plain integer;             *)
(*  - the section objects keep their structs in an arena (structs) and     *)
(*    their Python lists hold indices into it, so that a list that is      *)
(*    never cleared keeps pointing at the structs of an earlier run.       *)
(***************************************************************************)
EXTENDS Integers, Sequences, FiniteSets, TLC

VARIABLES
    flash,   \* the Flash: its size, attributes and the configuration of its sections
    sect,    \* the section objects, in declaration order
    pc,      \* phase of the build: "set_content", "finalize", "done", "error"
    idx,     \* the section the current phase handles next
    log,     \* the calls made so far, as <<method, section>>
    run,     \* number of the build being run on these section objects
    first,   \* the section objects as the first build left them
    chain,   \* a CRC computed over two buffers in turn: inputs, stage, value
    blk,     \* a segment given to the block compression: length, outcome of
             \* lz4 per block, stage, and the block count and bytes produced
    graph,   \* the commands of a compilation: trigger_commands and retval of
             \* each, and the number of worker threads
    queue,                \* Builder.queue, 0 standing for None
    nb_pending_commands,  \* Builder.nb_pending_commands
    nb_commands_failed,   \* Builder.nb_commands_failed
    lock,                 \* the holder of Builder.lock, "free" when none
    trigger_count,        \* trigger_count of every command
    worker,  \* per worker thread: position, command in hand, loop index and
             \* the value read from trigger_count
    caller,  \* the thread that runs compile(): position, loop index, whether
             \* its wait was notified, and what wait_completion returned
    hist     \* what happened so far: pushes per command, commands whose
             \* command_done was entered and left, commands in hand when
             \* wait_completion returned, commands started after that

\* the state of a Flash build
flashvars == <<flash, sect, pc, idx, log, run, first>>

\* the state of everything else
\* the state of the builder and its threads
buildervars ==
    <<graph, queue, nb_pending_commands, nb_commands_failed, lock, trigger_count,
      worker, caller, hist>>

othervars == <<chain, blk, buildervars>>

vars == <<flashvars, chain, blk, buildervars>>

---------------------------------------------------------------------------
(* Bounds of the model *)

\* longest Flash (number of sections) in the full-build specification
MaxSections == 2
\* most files of a WriteFs section
MaxFiles == 2
\* most loadable segments of a binary
MaxSegs == 2
\* how many times the two-phase build is run on the same section objects
MaxRuns == 2

\* most key-codes of a secret storage section
MaxKcs == 2
\* most volumes of the property 'volumes' of a volume table
MaxVolumes == 2
\* most worker threads of a builder
MaxWorkers == 2

---------------------------------------------------------------------------
(* Bit and byte helpers *)

Max(a, b) == IF a >= b THEN a ELSE b

Min(a, b) == IF a <= b THEN a ELSE b

RECURSIVE Pow2(_)
Pow2(n) == IF n = 0 THEN 1 ELSE 2 * Pow2(n - 1)

RECURSIVE Pow256(_)
Pow256(n) == IF n = 0 THEN 1 ELSE 256 * Pow256(n - 1)

\* a function over 1..n as a sequence value
AsSeq(f) == <<>> \o f

\* bit i (from 1) of the bit sequence a, 0 beyond its length
Bit(a, i) == IF i <= Len(a) THEN a[i] ELSE 0

\* Python's a ^ b on non-negative ints
BXor(a, b) ==
    AsSeq([i \in 1..Max(Len(a), Len(b)) |-> (Bit(a, i) + Bit(b, i)) % 2])

\* Python's a & b on non-negative ints
BAnd(a, b) == AsSeq([i \in 1..Min(Len(a), Len(b)) |-> a[i] * b[i]])

\* Python's a >> 1
Shr1(a) == IF a = <<>> THEN <<>> ELSE Tail(a)

\* the int of a byte value 0..255, as bits
ByteBits(b) == AsSeq([i \in 1..8 |-> (b \div Pow2(i - 1)) % 2])

\* a hexadecimal literal, most significant digit first, as bits
HexBits(digits) ==
    AsSeq([i \in 1..(4 * Len(digits)) |->
        (digits[Len(digits) - ((i - 1) \div 4)] \div Pow2((i - 1) % 4)) % 2])

\* the value of a bit sequence lies in [0, 2^32)
InU32(w) == \A i \in 1..Len(w) : i > 32 => w[i] = 0

\* two bit sequences denote the same int
SameInt(a, b) == \A i \in 1..Max(Len(a), Len(b)) : Bit(a, i) = Bit(b, i)

\* struct.pack('<I' / '<H' / '<B', v) for an int 0 <= v < 2^31: w bytes
Pack(w, v) == AsSeq([i \in 1..w |-> (v \div Pow256(i - 1)) % 256])

\* struct.pack of an int held as bits: w bytes
PackBits(w, a) ==
    AsSeq([i \in 1..w |->
        Bit(a, 8*i - 7) + 2 * Bit(a, 8*i - 6) + 4 * Bit(a, 8*i - 5)
        + 8 * Bit(a, 8*i - 4) + 16 * Bit(a, 8*i - 3) + 32 * Bit(a, 8*i - 2)
        + 64 * Bit(a, 8*i - 1) + 128 * Bit(a, 8*i)])

RECURSIVE Unpack(_)
\* the int a little-endian field holds (fields below 2^31 only)
Unpack(bytes) ==
    IF bytes = <<>> THEN 0 ELSE Head(bytes) + 256 * Unpack(Tail(bytes))

\* bytes(n)
Zeros(n) == AsSeq([i \in 1..n |-> 0])

RECURSIVE AndNot(_, _)
\* Python's x & ~m on ints (two's complement of unbounded width)
AndNot(x, m) ==
    IF x = 0 \/ m = -1 THEN 0
    ELSE IF m = 0 THEN x
    ELSE IF x = -1 THEN -m - 1
    ELSE (x % 2) * (1 - (m % 2)) + 2 * AndNot(x \div 2, m \div 2)

\* (x + align - 1) & ~(align - 1)
AlignUp(x, align) == AndNot(x + align - 1, align - 1)

RECURSIVE Concat(_)
\* b"".join(seqs)
Concat(seqs) == IF seqs = <<>> THEN <<>> ELSE Head(seqs) \o Concat(Tail(seqs))

---------------------------------------------------------------------------
(* CRC32 *)

\* 0xffffffff
ONES32 == HexBits(<<15, 15, 15, 15, 15, 15, 15, 15>>)

\* 0xEDB88320
POLY == HexBits(<<14, 13, 11, 8, 8, 3, 2, 0>>)

\* one step of the inner loop: mask from the low bit, shift, conditional xor
CrcBitStep(crc) ==
    IF crc = <<>> THEN <<>>
    ELSE LET mask == IF crc[1] = 1 THEN ONES32 ELSE <<>>
         IN  BXor(Shr1(crc), BAnd(POLY, mask))

RECURSIVE CrcBitLoop(_, _)
\* for _ in range(7, -1, -1): k steps
CrcBitLoop(crc, k) == IF k = 0 THEN crc ELSE CrcBitStep(CrcBitLoop(crc, k - 1))

\* the body of the outer loop for one byte: crc = crc ^ data, then 8 bit steps
CrcByteStep(crc, byte) ==
    IF crc = <<>> THEN CrcBitLoop(ByteBits(byte), 8)
    ELSE CrcBitLoop(BXor(crc, ByteBits(byte)), 8)

RECURSIVE CrcByteLoop(_, _, _, _)
\* for data in input (bytes lo..hi, left to right); the range is halved and the
\* left half evaluated first only to keep the evaluation stack shallow: the
\* bytes are still folded in order
CrcByteLoop(crc, data, lo, hi) ==
    IF lo > hi THEN crc
    ELSE IF lo = hi THEN CrcByteStep(crc, data[lo])
    ELSE LET left == CrcByteLoop(crc, data, lo, (lo + hi) \div 2)
         IN  IF left = <<>>
             THEN CrcByteLoop(<<>>, data, ((lo + hi) \div 2) + 1, hi)
             ELSE CrcByteLoop(left, data, ((lo + hi) \div 2) + 1, hi)

\* _compute_crc that leaves out the final xor
ComputeCrcSegmentNoXor(data) == CrcByteLoop(ONES32, data, 1, Len(data))

\* BinarySegment._compute_crc: init 0xffffffff, final xor 0xffffffff
ComputeCrcSegment(data) == BXor(CrcByteLoop(ONES32, data, 1, Len(data)), ONES32)

\* app_bin.BinarySegment._compute_crc_init(input_data, init): seeded, final
\* xor 0xffffffff
ComputeCrcInit(input_data, init) ==
    BXor(CrcByteLoop(init, input_data, 1, Len(input_data)), ONES32)

\* gapylib.utils.compute_crc(seed, data): seeded, no final xor
compute_crc(seed, data) == CrcByteLoop(seed, data, 1, Len(data))

---------------------------------------------------------------------------
(* Section objects and the layout primitive *)

\* FlashSection.__init__ and the __init__ of its subclasses: empty lists, no
\* top struct, no header, no binary; raised names the exception a method of
\* the section has raised, "none" while it has raised none
NewSection ==
    [ offset |-> 0, cur |-> 0, structs |-> <<>>, top |-> <<>>, header |-> 0,
      file_paths |-> <<>>, file_headers |-> <<>>, size_align |-> 0,
      sections |-> <<>>, section_headers |-> <<>>, diff |-> 0,
      segment_headers |-> <<>>, segments |-> <<>>, binary |-> <<>>,
      boot |-> FALSE,
      header_secure |-> 0, header_meta |-> 0, ac_list |-> <<>>,
      kc_list |-> <<>>, kc_number |-> -1,
      volume_app |-> 0, volume_app_entries |-> <<>>, volume_factory |-> 0,
      volume_factory_entries |-> <<>>, volumes_list |-> <<>>,
      volume_entries_lists |-> <<>>,
      next_section |-> 0, ssbl_header |-> 0, partition_table_header |-> 0,
      raised |-> "none" ]

\* FlashSection.set_content(offset, content_dict): the section starts at offset
\* and nothing is allocated yet
BaseSetContent(S, offset) == [S EXCEPT !.offset = offset, !.cur = offset]

\* CStructParent(name, parent=self): a fresh top struct with no children
NewTopStruct(S) == [S EXCEPT !.top = <<>>]

\* the index the next struct of S gets in its arena
NextId(S) == Len(S.structs) + 1

\* CStruct(name, parent=top_struct) followed by its add_field calls: the struct
\* is placed at the section's current offset, which moves past it
AddStruct(S, type, len, fields) ==
    [S EXCEPT !.structs = Append(@, [type |-> type, off |-> S.cur,
                                      len |-> len, f |-> fields]),
              !.top = Append(@, NextId(S)),
              !.cur = @ + len]

\* CStruct.set_field(name, value): value already packed to the field's bytes
SetField(S, id, name, bytes) == [S EXCEPT !.structs[id].f[name] = bytes]

\* CStruct.get_field(name).get_bytes()
GetBytes(S, id, name) == S.structs[id].f[name]

\* CStruct.get_offset()
StructOffset(S, id) == S.structs[id].off

\* CStruct.add_padding(name, align) and FlashSection.align_offset(align): zero
\* bytes up to the next multiple of align, counted from the Flash's base
PadTo(cur, align) == ((cur + align - 1) \div align) * align

\* FlashSection.get_size(): the declared size of the section, the rest of the
\* Flash when it is -1
GetSize(F, S, i) ==
    IF F.sections[i].size = -1 THEN F.size - S[i].offset ELSE F.sections[i].size

\* FlashSection.get_next_section(): index of the following section, 0 for None
GetNextSection(F, i) == IF i < Len(F.sections) THEN i + 1 ELSE 0

---------------------------------------------------------------------------
(* WriteFs *)

\* 0x3f9b
WFS_MAGIC == 16283

\* smallest remaining space for which no free block is emitted
WFS_FREE_MIN == 128

\* bytes of the scalar fields of a WriteFs header
WFS_HEADER_LEN == 48

\* 0xffffffff packed in a 4-byte field
NEXT_NONE == <<255, 255, 255, 255>>

\* a WriteFs header whose scalar fields are not padded to the alignment
WriteFsHeaderSizeUnpadded(size, align) == WFS_HEADER_LEN + AlignUp(size, align)

\* WriteFsHeader.__init__: 48 bytes of scalar fields, padding to the aligned
\* header size, then the payload rounded up to the alignment
WriteFsHeaderSize(size, align) == AlignUp(WFS_HEADER_LEN, align) + AlignUp(size, align)

WriteFsHeaderFields(size, align) ==
    [ magic |-> Zeros(2), flags |-> Zeros(2), crc |-> Zeros(4),
      size |-> Pack(4, AlignUp(size, align)), next |-> Zeros(4) ]

\* body of the per-file loop of WriteFsSection.set_content for file i (from 1)
WriteFsAddFile(S, i) ==
    LET align == S.size_align
        real_size == AlignUp(S.file_paths[i], align)
        id == NextId(S)
        S1 == AddStruct(S, "WriteFsHeader", WriteFsHeaderSize(real_size, align),
                        WriteFsHeaderFields(real_size, align))
        S2 == [S1 EXCEPT !.file_headers = Append(@, id)]
        S3 == SetField(S2, id, "size", Pack(4, real_size))
        S4 == SetField(S3, id, "magic", Pack(2, WFS_MAGIC))
        S5 == SetField(S4, id, "flags", Pack(2, 1))
    IN  SetField(S5, id, "crc", Pack(4, 0))

RECURSIVE WriteFsAddFiles(_, _)
\* for i, path in enumerate(self.file_paths)
WriteFsAddFiles(S, i) ==
    IF i > Len(S.file_paths) THEN S
    ELSE WriteFsAddFiles(WriteFsAddFile(S, i), i + 1)

RECURSIVE WriteFsLinkFiles(_, _)
\* for i, file_header in enumerate(self.file_headers): next of all but the last
WriteFsLinkFiles(S, i) ==
    IF i > Len(S.file_headers) THEN S
    ELSE IF i + 1 <= Len(S.file_headers)
         THEN WriteFsLinkFiles(
                  SetField(S, S.file_headers[i], "next",
                           Pack(4, StructOffset(S, S.file_headers[i + 1]) - S.offset)),
                  i + 1)
         ELSE WriteFsLinkFiles(S, i + 1)

\* the tail of WriteFsSection.set_content: free block and link of the last block
WriteFsFreeBlock(S, get_size) ==
    LET size == S.cur - S.offset
    IN  IF size < get_size
        THEN LET free_section_size == get_size - size
                 align == S.size_align
                 real_size == free_section_size - AlignUp(WFS_HEADER_LEN, align)
                 id == NextId(S)
                 S1 == IF free_section_size > WFS_FREE_MIN
                       THEN LET A1 == AddStruct(S, "WriteFsHeader",
                                          WriteFsHeaderSize(real_size, align),
                                          WriteFsHeaderFields(real_size, align))
                                A2 == [A1 EXCEPT !.file_headers = Append(@, id)]
                                A3 == SetField(A2, id, "next", NEXT_NONE)
                                A4 == SetField(A3, id, "magic", Pack(2, WFS_MAGIC))
                            IN  SetField(A4, id, "flags", Pack(2, 3))
                       ELSE S
                 free_section_offset ==
                     IF free_section_size > WFS_FREE_MIN THEN StructOffset(S1, id) - S.offset
                     ELSE 0
             IN  IF Len(S1.file_headers) > 1
                 THEN SetField(S1, S1.file_headers[Len(S1.file_headers) - 1],
                               "next", Pack(4, free_section_offset))
                 ELSE S1
        ELSE IF Len(S.file_headers) > 0
             THEN SetField(S, S.file_headers[Len(S.file_headers)], "next", NEXT_NONE)
             ELSE S

\* WriteFsSection.set_content
WriteFsSetContent(F, S, i, offset) ==
    LET cfg == F.sections[i]
        S0 == BaseSetContent(S[i], offset)
    IN  IF ~cfg.files.given THEN S0
        ELSE LET S1 == [S0 EXCEPT !.file_paths = @ \o cfg.files.list]
                 size == IF cfg.prop_size = -1 THEN F.size - offset ELSE cfg.prop_size
                 S2 == [NewTopStruct(S1) EXCEPT !.size_align = size]
             IN  IF Len(S2.file_paths) > 0
                 THEN LET S3 == WriteFsLinkFiles(WriteFsAddFiles(S2, 1), 1)
                          get_size == IF cfg.size = -1 THEN F.size - offset ELSE cfg.size
                      IN  WriteFsFreeBlock(S3, get_size)
                 ELSE S2

\* WriteFsSection.is_empty
WriteFsIsEmpty(S) == Len(S.file_paths) = 0


---------------------------------------------------------------------------
(* Partition types and Flash attributes *)

\* get_partition_type() of each section class
PartitionType(cfg) ==
    CASE cfg.kind = "rom" -> IF cfg.subtype \in {"ssbl", "fsbl"} THEN 2 ELSE 0
      [] cfg.kind = "app" -> IF cfg.subtype = "ssbl" THEN 2 ELSE 0
      [] cfg.kind = "pt2" -> 2
      [] cfg.kind = "wfs" -> 1
      [] cfg.kind = "sec" -> 2
      [] cfg.kind = "vol" -> 2
      [] cfg.kind = "meta" -> 2

\* get_partition_subtype() of each section class
PartitionSubtype(cfg) ==
    CASE cfg.kind = "rom" -> IF cfg.subtype = "ssbl" THEN 227
                             ELSE IF cfg.subtype = "fsbl" THEN 226 ELSE 255
      [] cfg.kind = "app" -> IF cfg.subtype = "ssbl" THEN 114 ELSE 113
      [] cfg.kind = "pt2" -> 224
      [] cfg.kind = "wfs" -> 131
      [] cfg.kind = "sec" -> 229
      [] cfg.kind = "vol" -> 225
      [] cfg.kind = "meta" -> 228

\* DefaultFlashRom.get_type
FlashGetType(F) ==
    CASE F.flash_type = "mram" -> 0
      [] F.flash_type = "spi" -> 1
      [] F.flash_type = "hyper" -> 2
      [] OTHER -> 255

\* DefaultFlashRom.get_itf
FlashGetItf(F) == F.itf

\* DefaultFlashRom.get_cs
FlashGetCs(F) == F.cs

---------------------------------------------------------------------------
(* Partition table v2 *)

\* 0x02BA
PT2_MAGIC == 698

\* bytes of PartitionTableV2Header.get_fields()
PT2_HEADER_LEN == 16

\* bytes of PartitionTableSectionHeader.append_fields()
PT2_RECORD_LEN == 32

\* PartitionTableV2Header.__init__
PT2HeaderFields ==
    [ magic_number |-> Zeros(2), partition_table_version |-> Zeros(1),
      nb_entries |-> Zeros(1), nb_entries_max |-> Zeros(1), flags |-> Zeros(2),
      crc_table |-> Zeros(4), crc_header |-> Zeros(4), padding |-> Zeros(1) ]

\* PartitionTableSectionHeader.__init__
PT2RecordFields ==
    [ uuid |-> Zeros(2), type |-> Zeros(1), subtype |-> Zeros(1),
      flags |-> Zeros(2), flash_type |-> Zeros(1), itf |-> Zeros(1),
      cs |-> Zeros(1), offset |-> Zeros(4), size |-> Zeros(4),
      max_size |-> Zeros(4), crc_payload |-> Zeros(4), padding |-> Zeros(7) ]

\* the bytes PartitionTableV2Header.get_crc covers
PT2HeaderCrcBytes(f) ==
    f.magic_number \o f.partition_table_version \o f.nb_entries
    \o f.nb_entries_max \o f.flags \o f.crc_table

\* PartitionTableV2Header.get_crc
PT2HeaderGetCrc(f) == compute_crc(ONES32, PT2HeaderCrcBytes(f))

\* PartitionTableV2Header.get_fields
PT2HeaderGetFields(f) ==
    PT2HeaderCrcBytes(f) \o f.crc_header \o f.padding

\* PartitionTableSectionHeader.append_fields
PT2AppendFields(f) ==
    f.uuid \o f.type \o f.subtype \o f.flags \o f.flash_type \o f.itf \o f.cs
    \o f.offset \o f.size \o f.max_size \o f.crc_payload \o f.padding

RECURSIVE PT2AddRecords(_, _)
\* k times: PartitionTableSectionHeader(...), self.section_headers.append
PT2AddRecords(S, k) ==
    IF k = 0 THEN S
    ELSE LET S1 == PT2AddRecords(S, k - 1)
             id == NextId(S1)
             S2 == AddStruct(S1, "PartitionTableSectionHeader", PT2_RECORD_LEN,
                             PT2RecordFields)
         IN  [S2 EXCEPT !.section_headers = Append(@, id)]

\* set_content that takes for the table's byte budget the space up to the
\* section after it
PT2SetContentUpToNext(F, S, i, offset) ==
    LET cfg == F.sections[i]
        S0 == BaseSetContent(S[i], offset)
        all_sections == [j \in 1..Len(F.sections) |-> j]
        S1 == [S0 EXCEPT !.sections = @ \o AsSeq(all_sections)]
        hid == NextId(S1)
        S2 == [AddStruct(NewTopStruct(S1), "PartitionTableV2Header",
                         PT2_HEADER_LEN, PT2HeaderFields)
                 EXCEPT !.header = hid]
        S3 == PT2AddRecords(S2, Len(S2.sections))
        size == Len(PT2HeaderGetFields(S3.structs[hid].f))
                + Len(S3.sections) * PT2_RECORD_LEN
        section_size == IF Len(S3.sections) = 0 THEN 0 ELSE PT2_RECORD_LEN
        request_size == IF GetNextSection(F, i) # 0
                        THEN S[GetNextSection(F, i)].offset - offset
                        ELSE cfg.prop_size
    IN  IF request_size # -1 /\ size < request_size
        THEN LET diff == (request_size - size) \div section_size
             IN  PT2AddRecords([S3 EXCEPT !.diff = diff], diff)
        ELSE S3

\* PartitionTableSectionV2.set_content; all_sections are the sections of every
\* Flash of the target, as references (indices)
PT2SetContent(F, S, i, offset) ==
    LET cfg == F.sections[i]
        S0 == BaseSetContent(S[i], offset)
        all_sections == [j \in 1..Len(F.sections) |-> j]
        S1 == [S0 EXCEPT !.sections = @ \o AsSeq(all_sections)]
        hid == NextId(S1)
        S2 == [AddStruct(NewTopStruct(S1), "PartitionTableV2Header",
                         PT2_HEADER_LEN, PT2HeaderFields)
                 EXCEPT !.header = hid]
        S3 == PT2AddRecords(S2, Len(S2.sections))
        size == Len(PT2HeaderGetFields(S3.structs[hid].f))
                + Len(S3.sections) * PT2_RECORD_LEN
        section_size == IF Len(S3.sections) = 0 THEN 0 ELSE PT2_RECORD_LEN
        request_size == cfg.prop_size
    IN  IF request_size # -1 /\ size < request_size
        THEN LET diff == (request_size - size) \div section_size
             IN  PT2AddRecords([S3 EXCEPT !.diff = diff], diff)
        ELSE S3

\* the real-record branch of the loop of finalize for record k (from 1)
PT2FillReal(F, S, self, k) ==
    LET P == S[self]
        id == P.section_headers[k]
        sec == P.sections[k]
        cfg == F.sections[sec]
        P1 == SetField(P, id, "uuid", Pack(2, k - 1))
        P2 == SetField(P1, id, "type", Pack(1, PartitionType(cfg)))
        P3 == SetField(P2, id, "subtype", Pack(1, PartitionSubtype(cfg)))
        P4 == SetField(P3, id, "offset", Pack(4, S[sec].offset))
        P5 == SetField(P4, id, "itf", Pack(1, FlashGetItf(F)))
        P6 == SetField(P5, id, "cs", Pack(1, FlashGetCs(F)))
        P7 == SetField(P6, id, "flash_type", Pack(1, FlashGetType(F)))
        P8 == SetField(P7, id, "size", Pack(4, GetSize(F, S, sec)))
    IN  SetField(P8, id, "max_size", Pack(4, GetSize(F, S, sec)))

\* a placeholder branch that numbers the placeholder like a real record
PT2FillPlaceholderNumbered(P, k) ==
    LET id == P.section_headers[k]
        P1 == SetField(P, id, "uuid", Pack(2, k - 1))
        P2 == SetField(P1, id, "type", Pack(1, 0))
        P3 == SetField(P2, id, "subtype", Pack(1, 0))
        P4 == SetField(P3, id, "offset", Pack(4, 0))
        P5 == SetField(P4, id, "size", Pack(4, 0))
        P6 == SetField(P5, id, "itf", Pack(1, 0))
        P7 == SetField(P6, id, "cs", Pack(1, 0))
        P8 == SetField(P7, id, "type", Pack(1, 0))
    IN  SetField(P8, id, "max_size", Pack(4, 0))

\* the placeholder branch of the loop of finalize for record k
PT2FillPlaceholder(P, k) ==
    LET id == P.section_headers[k]
        P1 == SetField(P, id, "uuid", Pack(2, 0))
        P2 == SetField(P1, id, "type", Pack(1, 0))
        P3 == SetField(P2, id, "subtype", Pack(1, 0))
        P4 == SetField(P3, id, "offset", Pack(4, 0))
        P5 == SetField(P4, id, "size", Pack(4, 0))
        P6 == SetField(P5, id, "itf", Pack(1, 0))
        P7 == SetField(P6, id, "cs", Pack(1, 0))
        P8 == SetField(P7, id, "type", Pack(1, 0))
    IN  SetField(P8, id, "max_size", Pack(4, 0))

RECURSIVE PT2FillRecords(_, _, _, _)
\* for section_id, section in enumerate(self.section_headers): the section
\* object and byte_field after the first k records were handled
PT2FillRecords(F, S, self, k) ==
    IF k = 0 THEN [obj |-> S[self], byte_field |-> <<>>]
    ELSE LET prev == PT2FillRecords(F, S, self, k - 1)
             P == prev.obj
             S1 == [S EXCEPT ![self] = P]
         IN  IF k <= Len(P.sections)
             THEN LET P1 == PT2FillReal(F, S1, self, k)
                  IN  [obj |-> P1,
                       byte_field |-> prev.byte_field
                           \o PT2AppendFields(P1.structs[P1.section_headers[k]].f)]
             ELSE [obj |-> PT2FillPlaceholder(P, k),
                   byte_field |-> prev.byte_field]

\* finalize that computes crc_header before crc_table is stored
PT2FinalizeCrcHeaderFirst(F, S, self) ==
    LET P0 == S[self]
        hid == P0.header
        P1 == SetField(P0, hid, "magic_number", Pack(2, PT2_MAGIC))
        P2 == SetField(P1, hid, "partition_table_version", Pack(1, 2))
        P3 == SetField(P2, hid, "nb_entries", Pack(1, Len(P0.sections)))
        P4 == SetField(P3, hid, "nb_entries_max", Pack(1, Len(P0.sections) + P0.diff))
        loop == PT2FillRecords(F, [S EXCEPT ![self] = P4], self,
                               Len(P4.section_headers))
        P5 == loop.obj
        crc == compute_crc(ONES32, loop.byte_field)
        P6 == SetField(P5, hid, "crc_header", PackBits(4, PT2HeaderGetCrc(P5.structs[hid].f)))
    IN  SetField(P6, hid, "crc_table", PackBits(4, crc))

\* PartitionTableSectionV2.finalize
PT2Finalize(F, S, self) ==
    LET P0 == S[self]
        hid == P0.header
        P1 == SetField(P0, hid, "magic_number", Pack(2, PT2_MAGIC))
        P2 == SetField(P1, hid, "partition_table_version", Pack(1, 2))
        P3 == SetField(P2, hid, "nb_entries", Pack(1, Len(P0.sections)))
        P4 == SetField(P3, hid, "nb_entries_max", Pack(1, Len(P0.sections) + P0.diff))
        loop == PT2FillRecords(F, [S EXCEPT ![self] = P4], self,
                               Len(P4.section_headers))
        P5 == loop.obj
        crc == compute_crc(ONES32, loop.byte_field)
        P6 == SetField(P5, hid, "crc_table", PackBits(4, crc))
    IN  SetField(P6, hid, "crc_header", PackBits(4, PT2HeaderGetCrc(P6.structs[hid].f)))


---------------------------------------------------------------------------
(* ELF binaries: rom_v2.BinarySegment and app_bin.BinarySegment *)

\* 64*1024, the raw size of a compression block
BLOCK_SIZE == 65536

\* one stored block that keeps the compressed chunk when it is as long as the
\* raw chunk
StoreBlockOnTie(chunk, compressed_chunk) ==
    LET len_raw == Len(chunk) - 1
        len_compressed == Len(compressed_chunk) - 1
    IN  IF len_compressed <= len_raw
        THEN Pack(2, len_raw) \o Pack(2, len_compressed) \o compressed_chunk
        ELSE Pack(2, len_raw) \o Pack(2, len_raw) \o chunk

\* one stored block of app_bin.BinarySegment.__init__: the 4-byte prefix and the
\* compressed chunk when it is shorter than the raw chunk, else the raw chunk;
\* compressed_chunk is what lz4.block.compress returned for chunk
StoreBlock(chunk, compressed_chunk) ==
    LET len_raw == Len(chunk) - 1
        len_compressed == Len(compressed_chunk) - 1
    IN  IF len_compressed < len_raw
        THEN Pack(2, len_raw) \o Pack(2, len_compressed) \o compressed_chunk
        ELSE Pack(2, len_raw) \o Pack(2, len_raw) \o chunk

RECURSIVE CompressBlocks(_, _, _)
\* the block loop of app_bin.BinarySegment.__init__ from block k on: lz4[k] is
\* the output of lz4.block.compress for block k
CompressBlocks(data, lz4, k) ==
    IF Len(data) > BLOCK_SIZE
    THEN LET rest == CompressBlocks(SubSeq(data, BLOCK_SIZE + 1, Len(data)), lz4, k + 1)
         IN  [ nb_blocks |-> rest.nb_blocks + 1,
               bytes |-> StoreBlock(SubSeq(data, 1, BLOCK_SIZE), lz4[k]) \o rest.bytes ]
    ELSE IF Len(data) > 0
         THEN [nb_blocks |-> 1, bytes |-> StoreBlock(data, lz4[k])]
         ELSE [nb_blocks |-> 0, bytes |-> <<>>]

\* rom_v2.BinarySegment.__init__
RomBinarySegment(seg) ==
    [ base |-> seg.base, data |-> seg.data, size |-> Len(seg.data),
      real_size |-> Len(seg.data), crc |-> ComputeCrcSegment(seg.data),
      is_overlay |-> 0, compressed |-> 0, nb_blocks |-> 0 ]

\* app_bin.BinarySegment.__init__
AppBinarySegment(seg, compressed) ==
    LET blocks == CompressBlocks(seg.data, seg.lz4, 1)
        data == IF compressed THEN blocks.bytes ELSE seg.data
    IN  [ base |-> seg.base, data |-> data, size |-> Len(seg.data),
          real_size |-> Len(data), crc |-> ComputeCrcSegment(seg.data),
          is_overlay |-> seg.is_overlay,
          compressed |-> IF compressed THEN 1 ELSE 0,
          nb_blocks |-> IF compressed THEN blocks.nb_blocks ELSE 0 ]

\* rom_v2.Binary.__init__ and app_bin.Binary.__init__, from the loadable
\* segments the ELF parser yields
ParseBinary(cfg) ==
    [ entry |-> cfg.binary.entry,
      segments |->
          AsSeq([k \in 1..Len(cfg.binary.segs) |->
              IF cfg.kind = "rom" THEN RomBinarySegment(cfg.binary.segs[k])
              ELSE AppBinarySegment(cfg.binary.segs[k], cfg.compressed)]) ]

---------------------------------------------------------------------------
(* XIP helper *)

\* 512, the XIP page size for page-size exponent 0
XIP_PAGE_BASE == 512

\* 0x20000000, the default XIP virtual address
XIP_VADDR == 536870912

\* 0x1c190000, the end of the L2 area of the XIP cache
XIP_L2_END == 471400448

\* Xip.__init__ of rom_v2 (from the section's properties) and of app_bin (fixed);
\* xip_flash_base -1 stands for None
XipInit(F, cfg) ==
    LET cmd == IF cfg.kind = "rom" THEN cfg.xip_page_size ELSE 0
        nb_pages == IF cfg.kind = "rom" THEN cfg.xip_page_number ELSE 16
    IN  [ xip_page_size_cmd |-> cmd,
          xip_page_size |-> XIP_PAGE_BASE * Pow2(cmd),
          xip_flash_base |-> IF cfg.kind = "rom" THEN cfg.xip_flash_address ELSE -1,
          xip_flash_size |-> 0,
          xip_vaddr |-> IF cfg.kind = "rom" THEN cfg.xip_virtual_address ELSE XIP_VADDR,
          xip_l2_nb_pages |-> nb_pages,
          xip_l2_addr |-> XIP_L2_END - nb_pages * (XIP_PAGE_BASE * Pow2(cmd)),
          xip_dev |-> CASE F.flash_type = "hyper" -> 0
                        [] F.flash_type = "spi" -> 1
                        [] F.flash_type = "mram" -> 2 ]

\* Xip.is_xip_segment
IsXipSegment(xip, base) == base >= xip.xip_vaddr

\* Xip.register_segment
RegisterSegment(xip, offset, size) ==
    [xip EXCEPT !.xip_flash_size = @ + size,
                !.xip_flash_base = IF @ = -1 THEN offset ELSE @]

\* Xip.fill_header
XipFillHeader(S, hid, xip) ==
    LET flash_nb_pages ==
            (xip.xip_flash_size + xip.xip_page_size - 1) \div xip.xip_page_size
        S1 == SetField(S, hid, "xip_dev", Pack(4, xip.xip_dev))
        S2 == SetField(S1, hid, "xip_vaddr", Pack(4, xip.xip_vaddr))
        S3 == SetField(S2, hid, "xip_page_size", Pack(4, xip.xip_page_size_cmd))
        S4 == SetField(S3, hid, "xip_flash_base",
                       Pack(4, IF xip.xip_flash_base = -1 THEN 0
                               ELSE xip.xip_flash_base))
        S5 == SetField(S4, hid, "xip_flash_nb_pages", Pack(4, flash_nb_pages))
        S6 == SetField(S5, hid, "xip_l2_base", Pack(4, xip.xip_l2_addr))
    IN  SetField(S6, hid, "xip_l2_nb_pages", Pack(4, xip.xip_l2_nb_pages))

---------------------------------------------------------------------------
(* ROM and app-binary sections *)

\* bytes of rom_v2.RomHeader and of app_bin.RomHeader: 13 words, ac, kc, kc_write
ROM_HEADER_LEN == 1332

\* bytes of RomEmptyHeader
ROM_EMPTY_HEADER_LEN == 4

\* bytes of rom_v2.RomSegmentHeader
ROM_SEGMENT_HEADER_LEN == 16

\* bytes of app_bin.AppSectionHeader
APP_SECTION_HEADER_LEN == 52

\* 0xC001B001 packed in a 4-byte field
APP_MAGIC == <<1, 176, 1, 192>>

\* RomHeader.__init__; first is next_section (rom_v2) or magic_number (app_bin)
RomHeaderFields ==
    [ first |-> Zeros(4), nb_segments |-> Zeros(4), entry |-> Zeros(4),
      unused |-> Zeros(4), xip_dev |-> Zeros(4), xip_vaddr |-> Zeros(4),
      xip_page_size |-> Zeros(4), xip_flash_base |-> Zeros(4),
      xip_flash_nb_pages |-> Zeros(4), xip_l2_base |-> Zeros(4),
      xip_l2_nb_pages |-> Zeros(4), kc_length |-> Zeros(4),
      key_length |-> Zeros(4) ]

\* RomEmptyHeader.__init__
RomEmptyHeaderFields == [first |-> Zeros(4)]

\* RomSegmentHeader.__init__ and AppSectionHeader.__init__
SegmentHeaderFields ==
    [ flash_offset |-> Zeros(4), mem_addr |-> Zeros(4), size |-> Zeros(4),
      crc |-> Zeros(4), flags |-> Zeros(4) ]

\* the segments kept in the order the ELF parser yields them
OrderSegmentsAsParsed(xip, segments) == segments

\* static_segments + xip_segments
OrderSegmentsStaticFirst(xip, segments) ==
    SelectSeq(segments, LAMBDA b : ~IsXipSegment(xip, b.base))
    \o SelectSeq(segments, LAMBDA b : IsXipSegment(xip, b.base))

\* xip_segments + static_segments
OrderSegments(xip, segments) ==
    SelectSeq(segments, LAMBDA b : IsXipSegment(xip, b.base))
    \o SelectSeq(segments, LAMBDA b : ~IsXipSegment(xip, b.base))

RECURSIVE AddSegmentHeaders(_, _, _)
\* for __ in binary_segments: a segment header, self.segment_headers.append
AddSegmentHeaders(S, kind, k) ==
    IF k = 0 THEN S
    ELSE LET S1 == AddSegmentHeaders(S, kind, k - 1)
             id == NextId(S1)
             S2 == AddStruct(S1,
                       IF kind = "rom" THEN "RomSegmentHeader" ELSE "AppSectionHeader",
                       IF kind = "rom" THEN ROM_SEGMENT_HEADER_LEN
                       ELSE APP_SECTION_HEADER_LEN,
                       SegmentHeaderFields)
         IN  [S2 EXCEPT !.segment_headers = Append(@, id)]

\* padding = CStruct('XIP padding'); padding.add_padding(align);
\* self.align_offset(align)
AddXipPadding(S, align) ==
    LET S1 == AddStruct(S, "XIP padding", PadTo(S.cur, align) - S.cur, [pad |-> <<>>])
    IN  [S1 EXCEPT !.cur = PadTo(@, align)]

RECURSIVE AddSegments(_, _, _)
\* for binary_segment in binary_segments: a RomSegment, self.segments.append,
\* xip.register_segment for an XIP one; the state after the first k segments
AddSegments(st, binary_segments, k) ==
    IF k = 0 THEN st
    ELSE LET prev == AddSegments(st, binary_segments, k - 1)
             b == binary_segments[k]
             id == NextId(prev.obj)
             S1 == AddStruct(prev.obj, "RomSegment", b.real_size,
                             [data |-> Zeros(b.real_size)])
             S2 == [S1 EXCEPT !.segments = Append(@, id)]
         IN  [ obj |-> S2,
               xip |-> IF IsXipSegment(prev.xip, b.base)
                       THEN RegisterSegment(prev.xip, StructOffset(S2, id), b.size)
                       ELSE prev.xip ]

RECURSIVE FillSegmentsStoredSize(_, _, _, _)
\* the fill loop writing the stored size of the data block, not the size of the
\* segment, in the header's size field
FillSegmentsStoredSize(S, kind, binary_segments, k) ==
    IF k = 0 THEN S
    ELSE LET S0 == FillSegmentsStoredSize(S, kind, binary_segments, k - 1)
             b == binary_segments[k]
             hid == S0.segment_headers[k]
             sid == S0.segments[k]
             addr_offset == StructOffset(S0, sid) - S0.offset
             S1 == SetField(S0, hid, "flash_offset", Pack(4, addr_offset))
             S2 == SetField(S1, hid, "mem_addr", Pack(4, b.base))
             S3 == SetField(S2, hid, "size", Pack(4, b.real_size))
             S4 == SetField(S3, hid, "crc", PackBits(4, b.crc))
             S5 == IF kind = "rom" THEN S4
                   ELSE SetField(S4, hid, "flags",
                            Pack(4, b.is_overlay + 2 * b.compressed
                                    + 16777216 * b.nb_blocks))
         IN  SetField(S5, sid, "data", b.data)

RECURSIVE FillSegments(_, _, _, _)
\* for i, binary_segment in enumerate(binary_segments): the header and the data
\* block found at index i of self.segment_headers and self.segments
FillSegments(S, kind, binary_segments, k) ==
    IF k = 0 THEN S
    ELSE LET S0 == FillSegments(S, kind, binary_segments, k - 1)
             b == binary_segments[k]
             hid == S0.segment_headers[k]
             sid == S0.segments[k]
             addr_offset == StructOffset(S0, sid) - S0.offset
             S1 == SetField(S0, hid, "flash_offset", Pack(4, addr_offset))
             S2 == SetField(S1, hid, "mem_addr", Pack(4, b.base))
             S3 == SetField(S2, hid, "size", Pack(4, b.size))
             S4 == SetField(S3, hid, "crc", PackBits(4, b.crc))
             S5 == IF kind = "rom" THEN S4
                   ELSE SetField(S4, hid, "flags",
                            Pack(4, b.is_overlay + 2 * b.compressed
                                    + 16777216 * b.nb_blocks))
         IN  SetField(S5, sid, "data", b.data)

\* the part of set_content that RomFlashSection and AppBinarySection share,
\* for a section that has a binary
BinarySetContent(F, S1, cfg) ==
    LET xip == XipInit(F, cfg)
        binary == S1.binary[1]
        hid == NextId(S1)
        S2 == [AddStruct(S1, "RomHeader", ROM_HEADER_LEN, RomHeaderFields)
                 EXCEPT !.header = hid]
        binary_segments == OrderSegments(xip, binary.segments)
        nb_xip == Len(SelectSeq(binary.segments,
                                LAMBDA b : IsXipSegment(xip, b.base)))
        S3 == AddSegmentHeaders(S2, cfg.kind, Len(binary_segments))
        S4 == IF nb_xip > 0 THEN AddXipPadding(S3, xip.xip_page_size) ELSE S3
        st == AddSegments([obj |-> S4, xip |-> xip], binary_segments,
                          Len(binary_segments))
        S5 == SetField(st.obj, hid, "nb_segments", Pack(4, Len(binary.segments)))
        S6 == SetField(S5, hid, "entry", Pack(4, binary.entry))
        S7 == XipFillHeader(S6, hid, st.xip)
    IN  FillSegments(S7, cfg.kind, binary_segments, Len(binary_segments))

\* RomFlashSection.set_content
RomSetContent(F, S, i, offset) ==
    LET cfg == F.sections[i]
        S0 == BaseSetContent(S[i], offset)
        S1 == [NewTopStruct(S0) EXCEPT
                 !.binary = IF cfg.binary.given THEN <<ParseBinary(cfg)>> ELSE <<>>,
                 !.boot = cfg.boot]
    IN  IF S1.binary # <<>>
        THEN BinarySetContent(F, S1, cfg)
        ELSE [AddStruct(S1, "RomEmptyHeader", ROM_EMPTY_HEADER_LEN,
                        RomEmptyHeaderFields)
                EXCEPT !.header = NextId(S1)]

\* RomFlashSection.finalize that takes the section's own offset for the offset
\* of the section after it
RomFinalizeOwnOffset(F, S, i) ==
    SetField(S[i], S[i].header, "first", Pack(4, S[i].offset))

\* RomFlashSection.finalize
RomFinalize(F, S, i) ==
    LET next_section == GetNextSection(F, i)
        next_section_offset ==
            IF next_section = 0 THEN S[i].offset + GetSize(F, S, i)
            ELSE S[next_section].offset
    IN  SetField(S[i], S[i].header, "first", Pack(4, next_section_offset))

\* is_empty that looks at the boot flag alone
RomIsEmptyNotBooting(S) == ~S.boot

\* RomFlashSection.is_empty
RomIsEmpty(S) == S.binary = <<>> \/ ~S.boot

\* AppBinarySection.set_content
AppSetContent(F, S, i, offset) ==
    LET cfg == F.sections[i]
        S0 == BaseSetContent(S[i], offset)
        S1 == [S0 EXCEPT
                 !.binary = IF cfg.binary.given THEN <<ParseBinary(cfg)>> ELSE <<>>]
    IN  IF S1.binary = <<>> THEN S1
        ELSE BinarySetContent(F, NewTopStruct(S1), cfg)

\* AppBinarySection.finalize
AppFinalize(F, S, i) ==
    IF S[i].binary # <<>> THEN SetField(S[i], S[i].header, "first", APP_MAGIC)
    ELSE S[i]

\* AppBinarySection.is_empty
AppIsEmpty(S) == S.binary = <<>>


---------------------------------------------------------------------------
(* Secret storage *)

\* bytes of SecretStorageSecureHeader: valid, ac[996], padding0[11], crc,
\* padding1[12]
SECURE_HEADER_LEN == 1024

\* SecretStorageSecureHeader.__init__
SecretStorageSecureHeaderFields ==
    [ valid |-> Zeros(1), ac |-> Zeros(996), padding0 |-> Zeros(11),
      crc |-> Zeros(4), padding1 |-> Zeros(12) ]

\* SecretStorageMetaHeader.__init__: field offset holds offset0..offset<nb_kc-1>
SecretStorageMetaHeaderFields(nb_kc) ==
    [ kc_number |-> Zeros(1),
      offset |-> AsSeq([k \in 1..nb_kc |-> Zeros(4)]),
      padding0 |-> Zeros(16 - (((nb_kc * 4) + 1) % 16)) ]

\* CStruct.pack() of the metadata header: its fields in declaration order
SecretStorageMetaHeaderPack(f) == f.kc_number \o Concat(f.offset) \o f.padding0

\* SecretStorageKC.kc_size_compute that counts only the complete 384-bit
\* blocks of the source
KcSizeComputeFloor(source_size) ==
    36 + (source_size \div 8) + (16 * (source_size \div 384))

\* SecretStorageKC.kc_size_compute
kc_size_compute(source_size) ==
    36 + (source_size \div 8) + (16 * ((source_size + 383) \div 384))

\* the kc_size SecretStorageKC.__init__ computes; flags is the wrapped flag
SecretStorageKCSize(source_size, flags) ==
    IF flags THEN kc_size_compute(source_size)
    ELSE LET kc_size == source_size \div 8
         IN  IF kc_size % 16 # 0 THEN kc_size + (16 - (kc_size % 16))
             ELSE kc_size

\* SecretStorageKC.__init__: the fields of a key-code record
SecretStorageKCFields(source_size, flags) ==
    LET kc_size == SecretStorageKCSize(source_size, flags)
    IN  [ kc_size |-> Pack(2, kc_size), kc_so_id |-> Zeros(1),
          flags |-> Pack(1, IF flags THEN 1 ELSE 0), kc |-> Zeros(kc_size),
          padding1 |-> Zeros(16 - ((kc_size + 4) % 16)) ]

\* CStruct.pack() of a key-code record: its fields in declaration order
SecretStorageKCPack(f) ==
    f.kc_size \o f.kc_so_id \o f.flags \o f.kc \o f.padding1

\* SecretStorageKC.get_real_size
SecretStorageKCRealSize(f) == Len(SecretStorageKCPack(f))

\* a size check applied to every key-code that ends up unwrapped, explicitly
\* or by automatic selection, instead of the explicitly wrapped ones
KcSizeRejectedUnwrapped(wrapped, kc_size) ==
    /\ wrapped = "false" \/ (wrapped = "none" /\ kc_size > 1023)
    /\ \/ kc_size > 1023 /\ kc_size % 1024 # 0
       \/ kc_size < 1024 /\ kc_size % 64 # 0

\* the size check of the loop of set_content: wrapped is the descriptor's
\* 'wrapped' entry, "none" when the descriptor has none
KcSizeRejected(wrapped, kc_size) ==
    /\ wrapped # "none" /\ wrapped = "true"
    /\ \/ kc_size > 1023 /\ kc_size % 1024 # 0
       \/ kc_size < 1024 /\ kc_size % 64 # 0

\* the wrapped flag the loop of set_content hands to SecretStorageKC
KcWrapped(wrapped, kc_size) ==
    IF wrapped = "none" THEN (IF kc_size > 1023 THEN FALSE ELSE TRUE)
    ELSE wrapped = "true"

RECURSIVE SecretStorageAddKcs(_, _, _)
\* the loop of set_content over the first k key-code descriptors: the section
\* object, the running kc_offset and the list kc_offsets; a RuntimeError ends
\* the loop
SecretStorageAddKcs(S, kc_list_descr, k) ==
    IF k = 0 THEN [obj |-> S, kc_offset |-> 0, kc_offsets |-> <<>>]
    ELSE LET prev == SecretStorageAddKcs(S, kc_list_descr, k - 1)
             P == prev.obj
             kc_descr == kc_list_descr[k]
             wrapped == kc_descr.wrapped
             kc_size == kc_descr.size
         IN  IF P.raised # "none" THEN prev
             ELSE IF KcSizeRejected(wrapped, kc_size)
             THEN [prev EXCEPT !.obj.raised = "RuntimeError"]
             ELSE LET fields == SecretStorageKCFields(
                                    kc_size, KcWrapped(wrapped, kc_size))
                      id == NextId(P)
                      P1 == AddStruct(P, "SecretStorageKC",
                                      SecretStorageKCRealSize(fields), fields)
                  IN  [obj |-> [P1 EXCEPT !.kc_list = Append(@, id),
                                          !.kc_number = @ + 1],
                       kc_offset |-> prev.kc_offset + SecretStorageKCRealSize(fields),
                       kc_offsets |-> Append(prev.kc_offsets, prev.kc_offset)]

\* SecretStorageSection.set_content
SecretStorageSetContent(F, S, i, offset) ==
    LET cfg == F.sections[i]
        S0 == NewTopStruct(BaseSetContent(S[i], offset))
        kc_list_descr == cfg.kc_list
        sid == NextId(S0)
        S1 == [AddStruct(S0, "SecretStorageSecureHeader", SECURE_HEADER_LEN,
                         SecretStorageSecureHeaderFields)
                 EXCEPT !.header_secure = sid]
        mid == NextId(S1)
        meta == SecretStorageMetaHeaderFields(Len(kc_list_descr))
        S2 == [AddStruct(S1, "SecretStorageMetaHeader",
                         Len(SecretStorageMetaHeaderPack(meta)), meta)
                 EXCEPT !.header_meta = mid, !.kc_number = 0]
        loop == SecretStorageAddKcs(S2, kc_list_descr, Len(kc_list_descr))
        S3 == loop.obj
    IN  IF S3.raised # "none" THEN S3
        ELSE LET S4 == SetField(S3, mid, "offset",
                           AsSeq([k \in 1..Len(loop.kc_offsets) |->
                                    Pack(4, loop.kc_offsets[k])]))
                 S5 == SetField(S4, mid, "kc_number", Pack(1, S4.kc_number))
             IN  IF cfg.encrypted # "none" /\ cfg.encrypted = "true"
                 THEN SetField(S5, sid, "valid", Pack(1, 2))
                 ELSE S5

RECURSIVE SecretStoragePackList(_, _, _)
\* the bytes of the first k records of a list of structs of S, each packed
SecretStoragePackList(S, list, k) ==
    IF k = 0 THEN <<>>
    ELSE SecretStoragePackList(S, list, k - 1)
         \o SecretStorageKCPack(S.structs[list[k]].f)

\* get_payload_crc that leaves the metadata header out
SecretStoragePayloadCrcNoMeta(S) ==
    compute_crc(ONES32,
        SecretStoragePackList(S, S.ac_list, Len(S.ac_list))
        \o SecretStoragePackList(S, S.kc_list, Len(S.kc_list)))

\* SecretStorageSection.get_payload_crc
SecretStorageGetPayloadCrc(S) ==
    compute_crc(ONES32,
        SecretStorageMetaHeaderPack(S.structs[S.header_meta].f)
        \o SecretStoragePackList(S, S.ac_list, Len(S.ac_list))
        \o SecretStoragePackList(S, S.kc_list, Len(S.kc_list)))

\* SecretStorageSection.finalize
SecretStorageFinalize(F, S, i) ==
    SetField(S[i], S[i].header_secure, "crc",
             PackBits(4, SecretStorageGetPayloadCrc(S[i])))

\* SecretStorageSection.is_empty
SecretStorageIsEmpty(S) == FALSE

---------------------------------------------------------------------------
(* Volume table *)

\* 0x01BA
VT_MAGIC == 442

\* bytes of VolumeTable: magic_number, nb_volumes, max_size, crc_vtable,
\* crc_header
VT_HEADER_LEN == 15

\* bytes of VolumeHeader
VT_VOLUME_LEN == 24

\* bytes of VolumeEntry
VT_ENTRY_LEN == 20

\* bytes of the label array of VolumeHeader and VolumeEntry
VT_LABEL_LEN == 16

\* placeholder entries volumes_default_init gives each volume: range(4)
VT_DEFAULT_FREE == 4

\* VolumeTable.__init__
VolumeTableFields ==
    [ magic_number |-> Zeros(2), nb_volumes |-> Zeros(1), max_size |-> Zeros(4),
      crc_vtable |-> Zeros(4), crc_header |-> Zeros(4) ]

\* VolumeHeader.__init__
VolumeHeaderFields ==
    [ flags |-> Zeros(2), uuid |-> Zeros(2), label |-> Zeros(VT_LABEL_LEN),
      nb_partitions |-> Zeros(1), max_nb_partitions |-> Zeros(1),
      boot_order |-> Zeros(1), boot_count |-> Zeros(1) ]

\* VolumeEntry.__init__
VolumeEntryFields ==
    [ flags |-> Zeros(2), uuid |-> Zeros(2), label |-> Zeros(VT_LABEL_LEN) ]

\* VolumeTable.get_crc
VolumeTableGetCrc(f) ==
    compute_crc(ONES32,
        f.magic_number \o f.nb_volumes \o f.max_size \o f.crc_vtable)

\* VolumeHeader.append_fields: pack() of the fields in declaration order
VolumeHeaderAppendFields(f) ==
    f.flags \o f.uuid \o f.label \o f.nb_partitions \o f.max_nb_partitions
    \o f.boot_order \o f.boot_count

\* VolumeEntry.append_fields: pack() of the fields in declaration order
VolumeEntryAppendFields(f) == f.flags \o f.uuid \o f.label

\* name.encode('utf-8') for the names of the model
Utf8(name) ==
    CASE name = "app" -> <<97, 112, 112>>
      [] name = "factory" -> <<102, 97, 99, 116, 111, 114, 121>>
      [] name = "s0" -> <<115, 48>>
      [] name = "s1" -> <<115, 49>>
      [] name = "s2" -> <<115, 50>>
      [] name = "s3" -> <<115, 51>>
      [] name = "missing" -> <<109, 105, 115, 115, 105, 110, 103>>
      [] name = "secret" -> <<115, 101, 99, 114, 101, 116>>
      [] name = "" -> <<>>

\* f'free_entry{i}'.encode('utf-8') for i below 10
FreeEntryUtf8(i) == <<102, 114, 101, 101, 95, 101, 110, 116, 114, 121, 48 + i>>

\* the bytes a label array holds after set_field('label', value + bytes([0])):
\* the value, zero-filled to the length of the array
LabelBytes(value) == value \o Zeros(VT_LABEL_LEN - Len(value))

\* Target.get_section_by_name: the first section of that name as a reference
\* (index from 1), 0 for None
GetSectionByName(F, name) ==
    IF \E j \in 1..Len(F.sections) : F.sections[j].name = name
    THEN CHOOSE j \in 1..Len(F.sections) :
            /\ F.sections[j].name = name
            /\ \A h \in 1..(j - 1) : F.sections[h].name # name
    ELSE 0

\* Target.get_section_index: the position (from 0) of the section of that
\* name among the sections of the target, -1 for None
GetSectionIndex(F, name) == GetSectionByName(F, name) - 1

\* VolumeEntry(...) with uuid, label and flags set, appended to the section
VolumeAddEntry(S, uuid, label) ==
    AddStruct(S, "VolumeEntry", VT_ENTRY_LEN,
              [VolumeEntryFields EXCEPT !.uuid = Pack(2, uuid),
                                        !.label = LabelBytes(label),
                                        !.flags = Pack(2, 0)])

RECURSIVE VolumeDefaultEntriesLocalUuid(_, _, _, _)
\* the loop of volumes_default_init numbering the entries within their volume
VolumeDefaultEntriesLocalUuid(F, S, factory, k) ==
    IF k = 0 THEN [obj |-> S, entries |-> <<>>]
    ELSE LET prev == VolumeDefaultEntriesLocalUuid(F, S, factory, k - 1)
             section == F.sections[k]
         IN  IF (PartitionType(section) = 2) = factory
             THEN [obj |-> VolumeAddEntry(prev.obj, Len(prev.entries),
                                          Utf8(section.name) \o <<0>>),
                   entries |-> Append(prev.entries, NextId(prev.obj))]
             ELSE prev

RECURSIVE VolumeDefaultEntries(_, _, _, _)
\* a loop of volumes_default_init over the first k sections of the Flash: an
\* entry for every section whose partition type is the factory type 0x02 (when
\* factory) or is not (when not factory); entries lists the new structs
VolumeDefaultEntries(F, S, factory, k) ==
    IF k = 0 THEN [obj |-> S, entries |-> <<>>]
    ELSE LET prev == VolumeDefaultEntries(F, S, factory, k - 1)
             section == F.sections[k]
             section_id == k - 1
         IN  IF (PartitionType(section) = 2) = factory
             THEN [obj |-> VolumeAddEntry(prev.obj, section_id,
                                          Utf8(section.name) \o <<0>>),
                   entries |-> Append(prev.entries, NextId(prev.obj))]
             ELSE prev

RECURSIVE VolumeNoneEntries(_, _)
\* for _ in range(n): VolumeEntry('none') with uuid 0, label bytes(16), flags 0
VolumeNoneEntries(S, n) ==
    IF n = 0 THEN [obj |-> S, entries |-> <<>>]
    ELSE LET prev == VolumeNoneEntries(S, n - 1)
         IN  [obj |-> VolumeAddEntry(prev.obj, 0, Zeros(VT_LABEL_LEN)),
              entries |-> Append(prev.entries, NextId(prev.obj))]

\* one half of volumes_default_init: the volume header, its entries and its
\* placeholders; the volume is returned with the lists of its entries
VolumeDefaultVolume(F, S, factory) ==
    LET vid == NextId(S)
        S1 == AddStruct(S, "VolumeHeader", VT_VOLUME_LEN, VolumeHeaderFields)
        real == VolumeDefaultEntries(F, S1, factory, Len(F.sections))
        section_nb == Len(real.entries)
        S2 == SetField(real.obj, vid, "uuid", Pack(2, IF factory THEN 1 ELSE 0))
        S3 == IF factory THEN S2 ELSE SetField(S2, vid, "flags", Pack(2, 1))
        S4 == SetField(S3, vid, "label",
                       LabelBytes(Utf8(IF factory THEN "factory" ELSE "app") \o <<0>>))
        S5 == SetField(S4, vid, "nb_partitions", Pack(1, section_nb))
        S6 == SetField(S5, vid, "max_nb_partitions",
                       Pack(1, section_nb + VT_DEFAULT_FREE))
        free == VolumeNoneEntries(S6, VT_DEFAULT_FREE)
    IN  [obj |-> free.obj, volume |-> vid, entries |-> real.entries \o free.entries]

\* VolumeTableSection.volumes_default_init
VolumesDefaultInit(F, S) ==
    LET app == VolumeDefaultVolume(F, S, FALSE)
        S1 == [app.obj EXCEPT !.volume_app = app.volume,
                              !.volume_app_entries = @ \o app.entries]
        factory == VolumeDefaultVolume(F, S1, TRUE)
    IN  [factory.obj EXCEPT !.volume_factory = factory.volume,
                            !.volume_factory_entries = @ \o factory.entries,
                            !.volumes_list = @ \o <<app.volume, factory.volume>>]

RECURSIVE VolumeNamedEntries(_, _, _, _)
\* the loop over the first k names of volume_descr.get('partitions'); the
\* method call on a section that is None raises AttributeError and ends it
VolumeNamedEntries(F, S, partitions, k) ==
    IF k = 0 THEN [obj |-> S, entries |-> <<>>]
    ELSE LET prev == VolumeNamedEntries(F, S, partitions, k - 1)
             P == prev.obj
             entry_name == partitions[k]
             id == NextId(P)
             P1 == AddStruct(P, "VolumeEntry", VT_ENTRY_LEN, VolumeEntryFields)
             P2 == SetField(P1, id, "label", LabelBytes(Utf8(entry_name) \o <<0>>))
             P3 == SetField(P2, id, "flags", Pack(2, 0))
             section == GetSectionByName(F, entry_name)
             uuid == GetSectionIndex(F, entry_name)
         IN  IF P.raised # "none" THEN prev
             ELSE IF section = 0
             THEN [prev EXCEPT !.obj = [P3 EXCEPT !.raised = "AttributeError"]]
             ELSE [obj |-> IF uuid # -1 THEN SetField(P3, id, "uuid", Pack(2, uuid))
                           ELSE P3,
                   entries |-> Append(prev.entries, id)]

RECURSIVE VolumeFreeEntries(_, _)
\* for i in range(n): VolumeEntry(f'free_entry{i}') with label and flags set
VolumeFreeEntries(S, n) ==
    IF n = 0 THEN [obj |-> S, entries |-> <<>>]
    ELSE LET prev == VolumeFreeEntries(S, n - 1)
             P == prev.obj
             id == NextId(P)
             P1 == AddStruct(P, "VolumeEntry", VT_ENTRY_LEN, VolumeEntryFields)
             P2 == SetField(P1, id, "label",
                            LabelBytes(FreeEntryUtf8(n - 1) \o <<0>>))
         IN  [obj |-> SetField(P2, id, "flags", Pack(2, 0)),
              entries |-> Append(prev.entries, id)]

RECURSIVE VolumesExplicitInit(_, _, _, _)
\* the loop of set_content over the first k descriptors of the property
\* 'volumes'
VolumesExplicitInit(F, S, volumes_descr, k) ==
    IF k = 0 THEN S
    ELSE LET P == VolumesExplicitInit(F, S, volumes_descr, k - 1)
             volume_descr == volumes_descr[k]
             volume_id == k - 1
             vid == NextId(P)
             P1 == AddStruct(P, "VolumeHeader", VT_VOLUME_LEN, VolumeHeaderFields)
             P2 == SetField(P1, vid, "uuid", Pack(2, volume_id))
             P3 == SetField(P2, vid, "label",
                            LabelBytes(Utf8(volume_descr.name) \o <<0>>))
             bootable == volume_descr.bootable
             P4 == SetField(P3, vid, "flags",
                            Pack(2, IF bootable = "none" \/ bootable = "false"
                                    THEN 0 ELSE 1))
             boot_order == volume_descr.boot_order
             P5 == IF boot_order # -1 /\ bootable = "true"
                   THEN SetField(P4, vid, "boot_order", Pack(1, boot_order))
                   ELSE P4
             named == VolumeNamedEntries(F, P5, volume_descr.partitions,
                                         Len(volume_descr.partitions))
             entry_nb == Len(named.entries)
             free_entry_nb == volume_descr.free_entry_nb
             free == IF free_entry_nb # -1
                     THEN VolumeFreeEntries(named.obj, free_entry_nb)
                     ELSE [obj |-> named.obj, entries |-> <<>>]
             entry_nb_max == IF free_entry_nb # -1 THEN entry_nb + free_entry_nb
                             ELSE entry_nb
             P6 == SetField(free.obj, vid, "nb_partitions", Pack(1, entry_nb))
             P7 == SetField(P6, vid, "max_nb_partitions", Pack(1, entry_nb_max))
         IN  IF P.raised # "none" THEN P
             ELSE IF named.obj.raised # "none" THEN named.obj
             ELSE [P7 EXCEPT !.volumes_list = Append(@, vid),
                             !.volume_entries_lists =
                                 Append(@, named.entries \o free.entries)]

\* VolumeTableSection.set_content
VolumeTableSetContent(F, S, i, offset) ==
    LET cfg == F.sections[i]
        S0 == NewTopStruct(BaseSetContent(S[i], offset))
        S1 == [AddStruct(S0, "VolumeTable", VT_HEADER_LEN, VolumeTableFields)
                 EXCEPT !.header = NextId(S0)]
    IN  IF ~cfg.volumes.given THEN VolumesDefaultInit(F, S1)
        ELSE VolumesExplicitInit(F, S1, cfg.volumes.list, Len(cfg.volumes.list))

RECURSIVE VolumeEntriesBytes(_, _, _)
\* append_fields of the first k entries of a list
VolumeEntriesBytes(S, entries, k) ==
    IF k = 0 THEN <<>>
    ELSE VolumeEntriesBytes(S, entries, k - 1)
         \o VolumeEntryAppendFields(S.structs[entries[k]].f)

RECURSIVE VolumesBytes(_, _)
\* the explicit branch of get_payload_byte_field for the first k volumes
VolumesBytes(S, k) ==
    IF k = 0 THEN <<>>
    ELSE VolumesBytes(S, k - 1)
         \o VolumeHeaderAppendFields(S.structs[S.volumes_list[k]].f)
         \o VolumeEntriesBytes(S, S.volume_entries_lists[k],
                               Len(S.volume_entries_lists[k]))

\* get_payload_byte_field that takes the volume headers only
VolumeTablePayloadHeadersOnly(F, S, i) ==
    Concat(AsSeq([k \in 1..Len(S[i].volumes_list) |->
        VolumeHeaderAppendFields(S[i].structs[S[i].volumes_list[k]].f)]))

\* VolumeTableSection.get_payload_byte_field
VolumeTableGetPayloadByteField(F, S, i) ==
    LET P == S[i]
    IN  IF ~F.sections[i].volumes.given
        THEN VolumeHeaderAppendFields(P.structs[P.volume_app].f)
             \o VolumeEntriesBytes(P, P.volume_app_entries, Len(P.volume_app_entries))
             \o VolumeHeaderAppendFields(P.structs[P.volume_factory].f)
             \o VolumeEntriesBytes(P, P.volume_factory_entries,
                                   Len(P.volume_factory_entries))
        ELSE VolumesBytes(P, Len(P.volumes_list))

\* VolumeTableSection.finalize
VolumeTableFinalize(F, S, i) ==
    LET P == S[i]
        hid == P.header
        payload_bytes == VolumeTableGetPayloadByteField(F, S, i)
        crc == compute_crc(ONES32, payload_bytes)
        P1 == SetField(P, hid, "crc_vtable", PackBits(4, crc))
        P2 == SetField(P1, hid, "max_size", Pack(4, Len(payload_bytes)))
        P3 == SetField(P2, hid, "magic_number", Pack(2, VT_MAGIC))
        P4 == SetField(P3, hid, "nb_volumes", Pack(1, Len(P.volumes_list)))
    IN  SetField(P4, hid, "crc_header",
                 PackBits(4, VolumeTableGetCrc(P4.structs[hid].f)))

\* VolumeTableSection.is_empty
VolumeTableIsEmpty(S) == FALSE

---------------------------------------------------------------------------
(* Recovery meta-table *)

\* 0xDEADBEEF as the bytes of an 'I' field
DEADBEEF == <<239, 190, 173, 222>>

\* bytes of MetaTableNext: next_section, pad[12]
META_NEXT_LEN == 16

\* bytes of SsblHeader
META_SSBL_LEN == 48

\* bytes of PartitionTableHeader
META_PT_LEN == 32

\* MetaTableNext.__init__
MetaTableNextFields == [ next_section |-> Zeros(4), pad |-> Zeros(12) ]

\* SsblHeader.__init__
SsblHeaderFields ==
    [ ssbl_a_not_b |-> Zeros(16),
      ssbl_a_crc |-> Zeros(4), ssbl_a_addr |-> Zeros(4), pad_ssbl_a |-> Zeros(8),
      ssbl_b_crc |-> Zeros(4), ssbl_b_addr |-> Zeros(4), pad_ssbl_b |-> Zeros(8) ]

\* PartitionTableHeader.__init__
PartitionTableHeaderFields ==
    [ pt_a_crc |-> Zeros(4), pt_a_addr |-> Zeros(4), pad_pt_a |-> Zeros(8),
      pt_b_crc |-> Zeros(4), pt_b_addr |-> Zeros(4), pad_pt_b |-> Zeros(8) ]

\* Flash.get_section_by_name: the section of that name as a reference (index
\* from 1), 0 for None
FlashGetSectionByName(F, name) == GetSectionByName(F, name)

\* FsblMetaTableSection.set_content
MetaTableSetContent(F, S, i, offset) ==
    LET S0 == NewTopStruct(BaseSetContent(S[i], offset))
        S1 == [AddStruct(S0, "MetaTableNext", META_NEXT_LEN, MetaTableNextFields)
                 EXCEPT !.next_section = NextId(S0)]
        S2 == [AddStruct(S1, "SsblHeader", META_SSBL_LEN, SsblHeaderFields)
                 EXCEPT !.ssbl_header = NextId(S1)]
    IN  [AddStruct(S2, "PartitionTableHeader", META_PT_LEN,
                   PartitionTableHeaderFields)
           EXCEPT !.partition_table_header = NextId(S2)]

\* a pointer resolution that clears the field when no section has the name
MetaSetAddrZeroUnresolved(F, S, P, id, field, name) ==
    IF name # "none"
    THEN LET section == FlashGetSectionByName(F, name)
         IN  IF section # 0 THEN SetField(P, id, field, Pack(4, S[section].offset))
             ELSE SetField(P, id, field, Zeros(4))
    ELSE P

\* one of the four blocks of finalize: if the property is set and a section
\* of that name exists, the field takes that section's offset
MetaSetAddr(F, S, P, id, field, name) ==
    IF name # "none"
    THEN LET section == FlashGetSectionByName(F, name)
         IN  IF section # 0 THEN SetField(P, id, field, Pack(4, S[section].offset))
             ELSE P
    ELSE P

\* the end of finalize that takes the end of the table's own structures
\* rather than the start of the next section
MetaTableNextOffsetOwnEnd(F, S, i) ==
    S[i].offset + META_NEXT_LEN + META_SSBL_LEN + META_PT_LEN

\* the end of finalize: the offset of the next section, or the end of this one
MetaTableNextOffset(F, S, i) ==
    IF GetNextSection(F, i) # 0 THEN S[GetNextSection(F, i)].offset
    ELSE S[i].offset + GetSize(F, S, i)

\* FsblMetaTableSection.finalize
MetaTableFinalize(F, S, i) ==
    LET cfg == F.sections[i]
        P0 == S[i]
        sid == P0.ssbl_header
        pid == P0.partition_table_header
        P1 == SetField(P0, sid, "ssbl_a_not_b", Zeros(16))
        P2 == SetField(P1, sid, "ssbl_a_addr", DEADBEEF)
        P3 == SetField(P2, sid, "ssbl_b_addr", DEADBEEF)
        P4 == SetField(P3, pid, "pt_a_addr", DEADBEEF)
        P5 == SetField(P4, pid, "pt_b_addr", DEADBEEF)
        P6 == MetaSetAddr(F, S, P5, sid, "ssbl_a_addr", cfg.ssbl_a)
        P7 == MetaSetAddr(F, S, P6, sid, "ssbl_b_addr", cfg.ssbl_b)
        P8 == MetaSetAddr(F, S, P7, pid, "pt_b_addr", cfg.pt_b)
        P9 == MetaSetAddr(F, S, P8, pid, "pt_a_addr", cfg.pt_a)
    IN  SetField(P9, P9.next_section, "next_section",
                 Pack(4, MetaTableNextOffset(F, S, i)))

\* FsblMetaTableSection.is_empty
MetaTableIsEmpty(S) == FALSE

---------------------------------------------------------------------------
(* The Flash container and the two-phase build *)

\* set_content of the class of section i
SectionSetContent(F, S, i, offset) ==
    CASE F.sections[i].kind = "rom" -> RomSetContent(F, S, i, offset)
      [] F.sections[i].kind = "app" -> AppSetContent(F, S, i, offset)
      [] F.sections[i].kind = "pt2" -> PT2SetContent(F, S, i, offset)
      [] F.sections[i].kind = "wfs" -> WriteFsSetContent(F, S, i, offset)
      [] F.sections[i].kind = "sec" -> SecretStorageSetContent(F, S, i, offset)
      [] F.sections[i].kind = "vol" -> VolumeTableSetContent(F, S, i, offset)
      [] F.sections[i].kind = "meta" -> MetaTableSetContent(F, S, i, offset)

\* finalize of the class of section i (WriteFs inherits FlashSection.finalize)
SectionFinalize(F, S, i) ==
    CASE F.sections[i].kind = "rom" -> RomFinalize(F, S, i)
      [] F.sections[i].kind = "app" -> AppFinalize(F, S, i)
      [] F.sections[i].kind = "pt2" -> PT2Finalize(F, S, i)
      [] F.sections[i].kind = "wfs" -> S[i]
      [] F.sections[i].kind = "sec" -> SecretStorageFinalize(F, S, i)
      [] F.sections[i].kind = "vol" -> VolumeTableFinalize(F, S, i)
      [] F.sections[i].kind = "meta" -> MetaTableFinalize(F, S, i)

\* a Flash that starts every section at the end of the section before it, less
\* one byte
AssignOffsetOverlap(F, S, i) ==
    IF i = 1 THEN 0 ELSE S[i - 1].offset + GetSize(F, S, i - 1) - 1

\* the offset the Flash gives section i: the end of the section before it
AssignOffset(F, S, i) ==
    IF i = 1 THEN 0 ELSE S[i - 1].offset + GetSize(F, S, i - 1)

\* LayoutOverflowError: the content of section i exceeds its size, or the
\* section ends beyond the Flash
LayoutOverflow(F, S, i) ==
    \/ S[i].cur - S[i].offset > GetSize(F, S, i)
    \/ S[i].offset + GetSize(F, S, i) > F.size

\* first loop of the build: set_content of the next section, in order; an
\* exception of set_content or a layout overflow ends the build
SetContent ==
    /\ pc = "set_content"
    /\ LET S1 == [sect EXCEPT ![idx] =
                     SectionSetContent(flash, sect, idx, AssignOffset(flash, sect, idx))]
       IN  /\ sect' = S1
           /\ log' = Append(log, <<"set_content", idx>>)
           /\ IF S1[idx].raised # "none" \/ LayoutOverflow(flash, S1, idx)
              THEN pc' = "error" /\ idx' = idx
              ELSE IF idx = Len(flash.sections)
                   THEN pc' = "finalize" /\ idx' = 1
                   ELSE pc' = pc /\ idx' = idx + 1
    /\ UNCHANGED <<flash, run, first>>
    /\ UNCHANGED othervars

\* second loop of the build: finalize of the next section, in order
Finalize ==
    /\ pc = "finalize"
    /\ sect' = [sect EXCEPT ![idx] = SectionFinalize(flash, sect, idx)]
    /\ log' = Append(log, <<"finalize", idx>>)
    /\ IF idx = Len(flash.sections)
       THEN pc' = "done" /\ idx' = 1
       ELSE pc' = pc /\ idx' = idx + 1
    /\ UNCHANGED <<flash, run, first>>
    /\ UNCHANGED othervars

\* the build is run again on the same Flash and section objects
Rebuild ==
    /\ pc = "done"
    /\ run < MaxRuns
    /\ run' = run + 1
    /\ first' = IF run = 1 THEN sect ELSE first
    /\ pc' = "set_content"
    /\ idx' = 1
    /\ log' = <<>>
    /\ UNCHANGED <<flash, sect>>
    /\ UNCHANGED othervars

---------------------------------------------------------------------------
(* The builder and its worker threads *)

\* the commands of graph g that trigger command c
PrerequisitesOf(g, c) ==
    { p \in 1..Len(g.trigger_commands) :
        \E k \in 1..Len(g.trigger_commands[p]) : g.trigger_commands[p][k] = c }

\* the commands of graph g no command triggers, in order: the ones the build
\* of the target pushes itself
RootsOf(g) ==
    SelectSeq(AsSeq([c \in 1..Len(g.trigger_commands) |-> c]),
              LAMBDA c : PrerequisitesOf(g, c) = {})

\* no builder: no thread, no command
NoGraph == [nb_threads |-> 0, trigger_commands |-> <<>>, retval |-> <<>>]

\* Builder.__init__ and CommandCommon.__init__ followed by the add_trigger
\* calls of graph g: counters at zero, an empty queue, the lock free, every
\* worker thread started, trigger_count of a command the number of commands
\* that trigger it
BuilderInit(g, start) ==
    /\ graph = g
    /\ queue = <<>>
    /\ nb_pending_commands = 0
    /\ nb_commands_failed = 0
    /\ lock = "free"
    /\ trigger_count = [c \in 1..Len(g.trigger_commands) |->
                            Cardinality(PrerequisitesOf(g, c))]
    /\ worker = [w \in 1..g.nb_threads |->
                    [pc |-> "pop", cmd |-> 0, k |-> 1, tmp |-> 0]]
    /\ caller = [pc |-> start, k |-> 1, notified |-> FALSE, ret |-> -1]
    /\ hist = [ pushed |-> [c \in 1..Len(g.trigger_commands) |-> 0],
                called |-> {}, left |-> {}, in_hand |-> {}, late |-> {} ]

\* nothing is being compiled
BuilderIdle == BuilderInit(NoGraph, "idle")

\* the command the trigger loop of worker w is at
TriggeredBy(w) == graph.trigger_commands[worker[w].cmd][worker[w].k]

\* Builder.push_command(command): under the lock, one more pending command and
\* the command at the end of the queue
PushCommand(c) ==
    /\ lock = "free"
    /\ nb_pending_commands' = nb_pending_commands + 1
    /\ queue' = Append(queue, c)
    /\ hist' = [hist EXCEPT !.pushed[c] = @ + 1]

\* the return of wait_completion: the lock is released and the number of failed
\* commands handed back; in_hand keeps the commands the workers hold then
WaitReturns ==
    /\ caller' = [caller EXCEPT !.pc = "stop", !.k = 1, !.ret = nb_commands_failed]
    /\ hist' = [hist EXCEPT !.in_hand =
                   { worker[w].cmd : w \in { v \in DOMAIN worker : worker[v].cmd # 0 } }]

\* compile: target.model.build(builder, builddir) pushes the commands that
\* wait for no other, one after the other, then compile calls wait_completion
Build ==
    /\ caller.pc = "build"
    /\ IF caller.k <= Len(RootsOf(graph))
       THEN /\ PushCommand(RootsOf(graph)[caller.k])
            /\ caller' = [caller EXCEPT !.k = @ + 1]
       ELSE /\ caller' = [caller EXCEPT !.pc = "wait_completion", !.k = 1]
            /\ UNCHANGED <<queue, nb_pending_commands, hist>>
    /\ UNCHANGED <<graph, nb_commands_failed, lock, trigger_count, worker>>
    /\ UNCHANGED <<flashvars, chain, blk>>

\* wait_completion: lock.acquire() and the first test of the loop; with
\* commands pending the caller waits on the condition, which releases the lock
WaitCompletion ==
    /\ caller.pc = "wait_completion"
    /\ lock = "free"
    /\ IF nb_pending_commands > 0
       THEN /\ caller' = [caller EXCEPT !.pc = "waiting", !.notified = FALSE]
            /\ UNCHANGED hist
       ELSE WaitReturns
    /\ UNCHANGED <<graph, queue, nb_pending_commands, nb_commands_failed, lock,
                   trigger_count, worker>>
    /\ UNCHANGED <<flashvars, chain, blk>>

\* condition.wait() returns: notified, the caller takes the lock again; with a
\* failed command it goes on to empty the queue, with none it tests the loop
\* condition again
WaitWake ==
    /\ caller.pc = "waiting"
    /\ caller.notified
    /\ lock = "free"
    /\ IF nb_commands_failed > 0
       THEN /\ lock' = "caller"
            /\ caller' = [caller EXCEPT !.pc = "drain"]
            /\ UNCHANGED hist
       ELSE /\ UNCHANGED lock
            /\ IF nb_pending_commands > 0
               THEN /\ caller' = [caller EXCEPT !.notified = FALSE]
                    /\ UNCHANGED hist
               ELSE WaitReturns
    /\ UNCHANGED <<graph, queue, nb_pending_commands, nb_commands_failed,
                   trigger_count, worker>>
    /\ UNCHANGED <<flashvars, chain, blk>>

\* while not self.queue.empty(): the test; an empty queue ends the loop, the
\* pending count is set to 0, the outer loop ends and the lock is released
DrainCheck ==
    /\ caller.pc = "drain"
    /\ IF queue = <<>>
       THEN /\ nb_pending_commands' = 0
            /\ lock' = "free"
            /\ WaitReturns
       ELSE /\ caller' = [caller EXCEPT !.pc = "drain_get"]
            /\ UNCHANGED <<nb_pending_commands, lock, hist>>
    /\ UNCHANGED <<graph, queue, nb_commands_failed, trigger_count, worker>>
    /\ UNCHANGED <<flashvars, chain, blk>>

\* self.queue.get() of the drain loop: blocks while the queue is empty
DrainGet ==
    /\ caller.pc = "drain_get"
    /\ queue # <<>>
    /\ queue' = Tail(queue)
    /\ caller' = [caller EXCEPT !.pc = "drain"]
    /\ UNCHANGED <<graph, nb_pending_commands, nb_commands_failed, lock,
                   trigger_count, worker, hist>>
    /\ UNCHANGED <<flashvars, chain, blk>>

\* stop: one None per thread in the queue
Stop ==
    /\ caller.pc = "stop"
    /\ IF caller.k <= graph.nb_threads
       THEN /\ queue' = Append(queue, 0)
            /\ caller' = [caller EXCEPT !.k = @ + 1]
       ELSE /\ caller' = [caller EXCEPT !.pc = "join"]
            /\ UNCHANGED queue
    /\ UNCHANGED <<graph, nb_pending_commands, nb_commands_failed, lock,
                   trigger_count, worker, hist>>
    /\ UNCHANGED <<flashvars, chain, blk>>

\* stop: thread.join() of every thread
Join ==
    /\ caller.pc = "join"
    /\ \A w \in DOMAIN worker : worker[w].pc = "exit"
    /\ caller' = [caller EXCEPT !.pc = "stopped"]
    /\ UNCHANGED <<graph, queue, nb_pending_commands, nb_commands_failed, lock,
                   trigger_count, worker, hist>>
    /\ UNCHANGED <<flashvars, chain, blk>>

\* BuilderWorker.run: pop_command, queue.get() blocking while the queue is
\* empty; None ends the thread
PopCommand(w) ==
    /\ worker[w].pc = "pop"
    /\ queue # <<>>
    /\ queue' = Tail(queue)
    /\ worker' = [worker EXCEPT ![w] =
                     IF Head(queue) = 0 THEN [@ EXCEPT !.pc = "exit"]
                     ELSE [@ EXCEPT !.pc = "run", !.cmd = Head(queue)]]
    /\ hist' = IF Head(queue) # 0 /\ caller.ret > 0
               THEN [hist EXCEPT !.late = @ \cup {Head(queue)}]
               ELSE hist
    /\ UNCHANGED <<graph, nb_pending_commands, nb_commands_failed, lock,
                   trigger_count, caller>>
    /\ UNCHANGED <<flashvars, chain, blk>>

\* test.run(): the command is executed and ends; it then reports, first to the
\* commands it triggers (CommandCommon.command_done), then to the builder
RunCommand(w) ==
    /\ worker[w].pc = "run"
    /\ worker' = [worker EXCEPT ![w] = [@ EXCEPT !.pc = "trigger", !.k = 1]]
    /\ hist' = [hist EXCEPT !.called = @ \cup {worker[w].cmd}]
    /\ UNCHANGED <<graph, queue, nb_pending_commands, nb_commands_failed, lock,
                   trigger_count, caller>>
    /\ UNCHANGED <<flashvars, chain, blk>>

\* CommandCommon.command_done, for command in self.trigger_commands: the read
\* of command.trigger_count of 'command.trigger_count -= 1'; the end of the
\* loop when no command is left
TriggerLoad(w) ==
    /\ worker[w].pc = "trigger"
    /\ IF worker[w].k <= Len(graph.trigger_commands[worker[w].cmd])
       THEN /\ worker' = [worker EXCEPT ![w] =
                             [@ EXCEPT !.pc = "store",
                                       !.tmp = trigger_count[TriggeredBy(w)]]]
            /\ UNCHANGED hist
       ELSE /\ worker' = [worker EXCEPT ![w] = [@ EXCEPT !.pc = "done"]]
            /\ hist' = [hist EXCEPT !.left = @ \cup {worker[w].cmd}]
    /\ UNCHANGED <<graph, queue, nb_pending_commands, nb_commands_failed, lock,
                   trigger_count, caller>>
    /\ UNCHANGED <<flashvars, chain, blk>>

\* the write of 'command.trigger_count -= 1': the value read, less one
TriggerStore(w) ==
    /\ worker[w].pc = "store"
    /\ trigger_count' = [trigger_count EXCEPT ![TriggeredBy(w)] = worker[w].tmp - 1]
    /\ worker' = [worker EXCEPT ![w] = [@ EXCEPT !.pc = "test"]]
    /\ UNCHANGED <<graph, queue, nb_pending_commands, nb_commands_failed, lock,
                   caller, hist>>
    /\ UNCHANGED <<flashvars, chain, blk>>

\* if command.trigger_count == 0: a fresh read of the counter
TriggerTest(w) ==
    /\ worker[w].pc = "test"
    /\ worker' = [worker EXCEPT ![w] =
                     IF trigger_count[TriggeredBy(w)] = 0
                     THEN [@ EXCEPT !.pc = "push"]
                     ELSE [@ EXCEPT !.pc = "trigger", !.k = @ + 1]]
    /\ UNCHANGED <<graph, queue, nb_pending_commands, nb_commands_failed, lock,
                   trigger_count, caller, hist>>
    /\ UNCHANGED <<flashvars, chain, blk>>

\* self.builder.push_command(command) of the trigger loop
TriggerPush(w) ==
    /\ worker[w].pc = "push"
    /\ PushCommand(TriggeredBy(w))
    /\ worker' = [worker EXCEPT ![w] = [@ EXCEPT !.pc = "trigger", !.k = @ + 1]]
    /\ UNCHANGED <<graph, nb_commands_failed, lock, trigger_count, caller>>
    /\ UNCHANGED <<flashvars, chain, blk>>

\* Builder.command_done(command): under the lock, the failure counted, one
\* pending command less, notify_all; the worker goes back to pop_command
CommandDone(w) ==
    /\ worker[w].pc = "done"
    /\ lock = "free"
    /\ nb_commands_failed' =
           nb_commands_failed + (IF graph.retval[worker[w].cmd] # 0 THEN 1 ELSE 0)
    /\ nb_pending_commands' = nb_pending_commands - 1
    /\ caller' = IF caller.pc = "waiting" THEN [caller EXCEPT !.notified = TRUE]
                 ELSE caller
    /\ worker' = [worker EXCEPT ![w] = [@ EXCEPT !.pc = "pop", !.cmd = 0]]
    /\ UNCHANGED <<graph, queue, lock, trigger_count, hist>>
    /\ UNCHANGED <<flashvars, chain, blk>>

---------------------------------------------------------------------------
(* Configurations *)

\* declare_property defaults of the section classes; -1 stands for None, and
\* so does "none" for a property that is a boolean or a name
DefaultCfg ==
    [ kind |-> "rom", size |-> -1, prop_size |-> -1,
      files |-> [given |-> FALSE, list |-> <<>>],
      binary |-> [given |-> FALSE, entry |-> 0, segs |-> <<>>],
      boot |-> FALSE, subtype |-> "none", compressed |-> FALSE,
      xip_page_size |-> 0, xip_page_number |-> 16,
      xip_flash_address |-> -1, xip_virtual_address |-> XIP_VADDR,
      name |-> "", kc_list |-> <<>>, encrypted |-> "none",
      volumes |-> [given |-> FALSE, list |-> <<>>],
      ssbl_a |-> "none", ssbl_b |-> "none", pt_a |-> "none", pt_b |-> "none" ]

\* size of the Flash of the model: 0x100000
FLASH_SIZE == 1048576

MkFlash(sections) ==
    [ size |-> FLASH_SIZE, flash_type |-> "mram", itf |-> 0, cs |-> 0,
      sections |-> sections ]

\* all sequences over S of length lo..hi
SeqsOf(S, lo, hi) == UNION {[1..n -> S] : n \in lo..hi}

\* 0x1c000000, an address below the XIP window
L2_BASE == 469762048

\* the message "123456789"
CheckMessage == <<49, 50, 51, 52, 53, 54, 55, 56, 57>>

\* loadable segments a binary is made of; lz4 is what lz4.block.compress
\* yields for the segment's block
SegChoices ==
    { [base |-> L2_BASE, data |-> <<1, 2, 3>>, is_overlay |-> 0, lz4 |-> <<<<9>>>>],
      [base |-> XIP_VADDR, data |-> <<4, 5>>, is_overlay |-> 0, lz4 |-> <<<<8, 8>>>>],
      [base |-> XIP_VADDR + 4096, data |-> <<6>>, is_overlay |-> 0, lz4 |-> <<<<7, 7>>>>],
      [base |-> L2_BASE + 256, data |-> CheckMessage, is_overlay |-> 0,
       lz4 |-> <<<<5, 5, 5, 5>>>>] }

BinaryOf(segs) == [given |-> TRUE, entry |-> L2_BASE + 128, segs |-> AsSeq(segs)]

\* a ROM or app-binary section with a binary
BinCfg(kind, segs, compressed, page, flash_address) ==
    [DefaultCfg EXCEPT !.kind = kind, !.size = 8192, !.binary = BinaryOf(segs),
                       !.boot = TRUE, !.compressed = compressed,
                       !.xip_page_size = page, !.xip_flash_address = flash_address]

\* a ROM section without binary, of the given size
EmptyRomCfg(size) == [DefaultCfg EXCEPT !.kind = "rom", !.size = size]

\* Flashes of one ROM or app-binary section, alone or behind an empty ROM
\* section that ends off any page boundary
BinFlashes ==
    { MkFlash(lead \o <<BinCfg(k[1], segs, k[2], k[3], k[4])>>) :
        lead \in {<<>>, <<EmptyRomCfg(100)>>},
        segs \in SeqsOf(SegChoices, 0, MaxSegs),
        k \in { <<"rom", FALSE, 0, -1>>, <<"rom", FALSE, 1, -1>>,
                <<"rom", FALSE, 0, 2048>>,
                <<"app", FALSE, 0, -1>>, <<"app", TRUE, 0, -1>> } }

FileSizes == {10, 4100}

Aligns == {64, 4096}

Remainders == {0, 100, 128, 129, 192, 5000, 8192}

RECURSIVE WriteFsUsed(_, _)
\* bytes the file blocks of a WriteFs section take
WriteFsUsed(files, align) ==
    IF files = <<>> THEN 0
    ELSE WriteFsHeaderSize(AlignUp(Head(files), align), align)
         + WriteFsUsed(Tail(files), align)

WfsCfg(given, files, align, size) ==
    [DefaultCfg EXCEPT !.kind = "wfs", !.size = size, !.prop_size = align,
                       !.files = [given |-> given, list |-> AsSeq(files)]]

\* Flashes of one WriteFs section: every file list, alignment and amount of
\* space left after the files
WfsFlashes ==
    { MkFlash(<<WfsCfg(TRUE, files, a, WriteFsUsed(AsSeq(files), a) + r)>>) :
        files \in SeqsOf(FileSizes, 0, MaxFiles), a \in Aligns, r \in Remainders }
    \cup { MkFlash(<<WfsCfg(FALSE, <<>>, a, 1024)>>) : a \in Aligns }

PT2Cfg(request_size, size) ==
    [DefaultCfg EXCEPT !.kind = "pt2", !.size = size, !.prop_size = request_size]

\* the sections the Flashes of the full build are made of
SectionChoices ==
    { BinCfg("rom", <<[base |-> L2_BASE, data |-> <<1, 2, 3>>, is_overlay |-> 0,
                       lz4 |-> <<<<9>>>>]>>, FALSE, 0, -1),
      EmptyRomCfg(-1),
      BinCfg("app", <<[base |-> XIP_VADDR, data |-> <<4, 5>>, is_overlay |-> 0,
                       lz4 |-> <<<<8, 8>>>>]>>, FALSE, 0, -1),
      PT2Cfg(-1, 256),
      PT2Cfg(144, 256),
      WfsCfg(TRUE, <<10>>, 64, 512) }

FullFlashes == { MkFlash(AsSeq(ss)) : ss \in SeqsOf(SectionChoices, 1, MaxSections) }


\* key-code descriptors: a size and the 'wrapped' entry, absent when "none"
KcChoices ==
    { [size |-> 64, wrapped |-> "none"], [size |-> 100, wrapped |-> "none"],
      [size |-> 100, wrapped |-> "true"], [size |-> 1024, wrapped |-> "none"],
      [size |-> 1024, wrapped |-> "true"], [size |-> 1500, wrapped |-> "false"] }

SecCfg(kc_list, encrypted) ==
    [DefaultCfg EXCEPT !.kind = "sec", !.size = 4096, !.name = "secret",
                       !.kc_list = AsSeq(kc_list), !.encrypted = encrypted]

\* Flashes of one secret storage section with up to MaxKcs key-codes, and of
\* an encrypted one with at most one
SecFlashes ==
    { MkFlash(<<SecCfg(kcs, "none")>>) : kcs \in SeqsOf(KcChoices, 0, MaxKcs) }
    \cup { MkFlash(<<SecCfg(kcs, "true")>>) : kcs \in SeqsOf(KcChoices, 0, 1) }

\* the names the sections of a Flash get, by position
SectionNames == <<"s0", "s1", "s2", "s3">>

\* the sections ss, each under the name of its position
Named(ss) == AsSeq([k \in 1..Len(ss) |-> [ss[k] EXCEPT !.name = SectionNames[k]]])

\* a volume table section; volumes is the property 'volumes'
VolCfg(volumes) ==
    [DefaultCfg EXCEPT !.kind = "vol", !.size = 1024, !.volumes = volumes]

\* a volume table section without the property 'volumes'
VolDefaultCfg == VolCfg([given |-> FALSE, list |-> <<>>])

\* sections next to a volume table: partition types 0, 1 and 2
VolNeighbours ==
    { EmptyRomCfg(256), WfsCfg(TRUE, <<10>>, 64, -1), PT2Cfg(-1, 256) }

\* volume descriptors of the property 'volumes'; -1 stands for an absent
\* boot_order or free_entry_nb, "none" for an absent bootable
VolumeChoices ==
    { [name |-> "app", bootable |-> "true", boot_order |-> 1,
       partitions |-> <<"s0">>, free_entry_nb |-> 1],
      [name |-> "factory", bootable |-> "none", boot_order |-> -1,
       partitions |-> <<"s1", "s0">>, free_entry_nb |-> -1],
      [name |-> "app", bootable |-> "false", boot_order |-> 2,
       partitions |-> <<"missing">>, free_entry_nb |-> -1],
      [name |-> "factory", bootable |-> "true", boot_order |-> -1,
       partitions |-> <<"s0", "missing">>, free_entry_nb |-> 2],
      [name |-> "app", bootable |-> "none", boot_order |-> -1,
       partitions |-> <<>>, free_entry_nb |-> 0] }

\* Flashes with a default volume table among sections of every partition
\* type, and Flashes of an empty ROM section "s0" and a volume table "s1" with
\* up to MaxVolumes configured volumes
VolFlashes ==
    { MkFlash(Named(ss)) : ss \in
        { q \in SeqsOf(VolNeighbours \cup {VolDefaultCfg}, 1, MaxSections) :
            \E k \in 1..Len(q) : q[k].kind = "vol" } }
    \cup { MkFlash(Named(<<EmptyRomCfg(256),
                           VolCfg([given |-> TRUE, list |-> AsSeq(vd)])>>)) :
             vd \in SeqsOf(VolumeChoices, 1, MaxVolumes) }

\* a recovery meta-table of the given size; names gives the properties
\* ssbl_a, ssbl_b, pt_a and pt_b, "none" for an absent one
MetaCfg(size, names) ==
    [DefaultCfg EXCEPT !.kind = "meta", !.size = size,
                       !.ssbl_a = names[1], !.ssbl_b = names[2],
                       !.pt_a = names[3], !.pt_b = names[4]]

\* meta-tables naming no section, existing sections and a missing one
MetaChoices ==
    { MetaCfg(-1, <<"none", "none", "none", "none">>),
      MetaCfg(128, <<"s0", "none", "none", "none">>),
      MetaCfg(128, <<"s1", "s0", "s1", "missing">>),
      MetaCfg(128, <<"missing", "s1", "none", "s0">>),
      MetaCfg(128, <<"none", "none", "s0", "s1">>) }

\* sections next to a meta-table: ROM sections without and with a binary
MetaNeighbours ==
    { EmptyRomCfg(256), EmptyRomCfg(-1),
      BinCfg("rom", <<[base |-> L2_BASE, data |-> <<1, 2, 3>>, is_overlay |-> 0,
                       lz4 |-> <<<<9>>>>]>>, FALSE, 0, -1) }

\* Flashes of up to MaxSections ROM sections and meta-tables
MetaFlashes ==
    { MkFlash(Named(ss)) :
        ss \in SeqsOf(MetaChoices \cup MetaNeighbours, 1, MaxSections) }

\* byte budgets of a partition table: none, the size of the header and one
\* record, and budgets that are no whole number of records
PT2Budgets == {-1, 48, 100, 200}

\* Flashes of up to MaxSections sections, empty ROM sections and at least one
\* partition table with a byte budget
PT2Flashes ==
    { MkFlash(Named(ss)) : ss \in
        { q \in SeqsOf({EmptyRomCfg(256)} \cup {PT2Cfg(r, 512) : r \in PT2Budgets},
                       1, MaxSections) :
            \E k \in 1..Len(q) : q[k].kind = "pt2" } }

\* an app-binary section without binary
EmptyAppCfg(size) == [DefaultCfg EXCEPT !.kind = "app", !.size = size]

\* sections with and without binary: ROM sections without binary, booted from
\* or not, an app-binary section without binary, a ROM section with a binary
\* and a partition table
EmptyChoices ==
    { EmptyRomCfg(256), EmptyRomCfg(-1),
      [EmptyRomCfg(256) EXCEPT !.boot = TRUE],
      EmptyAppCfg(256),
      BinCfg("rom", <<[base |-> L2_BASE, data |-> <<1, 2, 3>>, is_overlay |-> 0,
                       lz4 |-> <<<<9>>>>]>>, FALSE, 0, -1),
      PT2Cfg(-1, 256) }

\* Flashes of up to MaxSections such sections
EmptyFlashes ==
    { MkFlash(AsSeq(ss)) : ss \in SeqsOf(EmptyChoices, 1, MaxSections) }

\* no segment is being compressed
BlockIdle ==
    [stage |-> "idle", n |-> 0, kinds |-> <<>>, nb_blocks |-> 0, data |-> <<>>]

\* the bytes of a segment of n bytes
RawBytes(n) == AsSeq([i \in 1..n |-> i % 251])

\* the raw length of block k of a segment of n bytes
ChunkLen(n, k) == Min(BLOCK_SIZE, n - (k - 1) * BLOCK_SIZE)

\* what lz4.block.compress returns for block k: two bytes when the block
\* compresses ("short"), one byte more than the block when it does not ("long")
Lz4Output(n, kinds, k) ==
    IF kinds[k] = "short" THEN <<255, k>>
    ELSE AsSeq([i \in 1..(ChunkLen(n, k) + 1) |-> 255])

\* segment lengths around one byte and around one and two blocks
BlockLengths ==
    {1, 2, 3, BLOCK_SIZE - 1, BLOCK_SIZE, BLOCK_SIZE + 1, 2 * BLOCK_SIZE,
     2 * BLOCK_SIZE + 1}

\* the segments given to the block compression: a length and, for every block,
\* whether lz4 shortens it
BlockInputs ==
    { [stage |-> "start", n |-> n, kinds |-> AsSeq(kinds), nb_blocks |-> 0,
       data |-> <<>>] :
        n \in BlockLengths,
        kinds \in UNION { [1..m -> {"short", "long"}] : m \in 1..3 } }

\* app_bin.BinarySegment.__init__ with compressed set: the block loop over the
\* bytes of the segment
CompressSegment ==
    /\ blk.stage = "start"
    /\ LET lz4 == AsSeq([k \in 1..Len(blk.kinds) |-> Lz4Output(blk.n, blk.kinds, k)])
           blocks == CompressBlocks(RawBytes(blk.n), lz4, 1)
       IN  blk' = [blk EXCEPT !.stage = "built", !.nb_blocks = blocks.nb_blocks,
                              !.data = blocks.bytes]
    /\ UNCHANGED <<flashvars, chain, buildervars>>

\* Flashes of one app-binary section built with compression
CompressedFlashes ==
    { MkFlash(<<BinCfg("app", segs, TRUE, 0, -1)>>) :
        segs \in SeqsOf(SegChoices, 1, MaxSegs) }

\* no chained CRC computation
ChainIdle == [stage |-> "idle", seed |-> <<>>, a |-> <<>>, b |-> <<>>, crc |-> <<>>]

\* seeds of a chained computation: 0xffffffff, 0 and 0x12345678
Seeds == { ONES32, <<>>, HexBits(<<1, 2, 3, 4, 5, 6, 7, 8>>) }

\* the buffers a message is cut into
ChainBuffers == { <<>>, <<49>>, <<50, 51>>, <<0, 255>>, CheckMessage }

\* first call: the CRC of buffer a from the seed
ChainFirst ==
    /\ chain.stage = "start"
    /\ chain' = [chain EXCEPT !.stage = "first",
                              !.crc = ComputeCrcInit(chain.a, chain.seed)]
    /\ UNCHANGED <<flashvars, blk, buildervars>>

\* second call: the CRC of buffer b from the result of the first call
ChainSecond ==
    /\ chain.stage = "first"
    /\ chain' = [chain EXCEPT !.stage = "second",
                              !.crc = ComputeCrcInit(chain.b, chain.crc)]
    /\ UNCHANGED <<flashvars, blk, buildervars>>

\* no Flash is being built
FlashIdle ==
    /\ flash = MkFlash(<<>>)
    /\ sect = <<>>
    /\ pc = "idle"
    /\ idx = 1
    /\ log = <<>>
    /\ run = 1
    /\ first = <<>>

\* which commands trigger which, for three commands: none; 1 and 2 both
\* trigger 3; 1 triggers 2, which triggers 3; 1 triggers 2 and 3 stands alone
TriggerGraphs ==
    { << <<>>, <<>>, <<>> >>, << <<3>>, <<3>>, <<>> >>,
      << <<2>>, <<3>>, <<>> >>, << <<2>>, <<>>, <<>> >> }

\* the exit codes of the three commands: none fails, the first, the last
Retvals == { <<0, 0, 0>>, <<1, 0, 0>>, <<0, 0, 1>> }

\* the compilations: a number of threads (args.jobs), commands and exit codes
Graphs ==
    { [nb_threads |-> t, trigger_commands |-> g, retval |-> r] :
        t \in 1..MaxWorkers, g \in TriggerGraphs, r \in Retvals }

---------------------------------------------------------------------------
(* Specifications *)

InitWith(flashes) ==
    /\ flash \in flashes
    /\ sect = [i \in 1..Len(flash.sections) |-> NewSection]
    /\ pc = "set_content"
    /\ idx = 1
    /\ log = <<>>
    /\ run = 1
    /\ first = <<>>
    /\ chain = ChainIdle
    /\ blk = BlockIdle
    /\ BuilderIdle

Init == InitWith(FullFlashes)

Next == SetContent \/ Finalize

\* one image build of a Flash of up to MaxSections sections
Spec == Init /\ [][Next]_vars

InitWfs == InitWith(WfsFlashes)

\* one image build of a Flash holding a WriteFs section
SpecWfs == InitWfs /\ [][Next]_vars

InitBin == InitWith(BinFlashes)

\* one image build of a Flash holding a ROM or app-binary section
SpecBin == InitBin /\ [][Next]_vars

NextRebuild == SetContent \/ Finalize \/ Rebuild

\* the build run MaxRuns times on the same Flash
SpecRebuild == Init /\ [][NextRebuild]_vars

InitVol == InitWith(VolFlashes)

\* one image build of a Flash holding a volume table
SpecVol == InitVol /\ [][Next]_vars

InitMeta == InitWith(MetaFlashes)

\* one image build of a Flash of ROM sections and recovery meta-tables
SpecMeta == InitMeta /\ [][Next]_vars

InitPT2 == InitWith(PT2Flashes)

\* one image build of a Flash holding a partition table with a byte budget
SpecPT2 == InitPT2 /\ [][Next]_vars

InitSec == InitWith(SecFlashes)

\* one image build of a Flash holding a secret storage section
SpecSec == InitSec /\ [][Next]_vars

InitEmpty == InitWith(EmptyFlashes)

\* one image build of a Flash holding sections without binary
SpecEmpty == InitEmpty /\ [][Next]_vars

\* a compressed app binary to lay out, or a segment to compress
InitBlocks ==
    \/ InitWith(CompressedFlashes)
    \/ /\ FlashIdle
       /\ chain = ChainIdle
       /\ BuilderIdle
       /\ blk \in { b \in BlockInputs :
                      Len(b.kinds) = (b.n + BLOCK_SIZE - 1) \div BLOCK_SIZE }

NextBlocks == SetContent \/ Finalize \/ CompressSegment

\* the block compression of app-binary segments
SpecBlocks == InitBlocks /\ [][NextBlocks]_vars

InitChain ==
    /\ FlashIdle
    /\ blk = BlockIdle
    /\ BuilderIdle
    /\ chain \in { [stage |-> "start", seed |-> s, a |-> a, b |-> b, crc |-> s] :
                      s \in Seeds, a \in ChainBuffers, b \in ChainBuffers }

NextChain == ChainFirst \/ ChainSecond

\* the seeded CRC applied to two buffers in turn
SpecChain == InitChain /\ [][NextChain]_vars

InitBuilder ==
    /\ FlashIdle
    /\ chain = ChainIdle
    /\ blk = BlockIdle
    /\ \E g \in Graphs : BuilderInit(g, "build")

\* a step of the thread that runs compile(), or of a worker thread
NextBuilder ==
    \/ Build \/ WaitCompletion \/ WaitWake \/ DrainCheck \/ DrainGet
    \/ Stop \/ Join
    \/ \E w \in DOMAIN worker : PopCommand(w)
    \/ \E w \in DOMAIN worker : RunCommand(w)
    \/ \E w \in DOMAIN worker : TriggerLoad(w)
    \/ \E w \in DOMAIN worker : TriggerStore(w)
    \/ \E w \in DOMAIN worker : TriggerTest(w)
    \/ \E w \in DOMAIN worker : TriggerPush(w)
    \/ \E w \in DOMAIN worker : CommandDone(w)

\* compile() with its builder and worker threads, any interleaving
SpecBuilder == InitBuilder /\ [][NextBuilder]_vars

\* the same, some thread that can take a step eventually taking one
SpecBuilderLive == SpecBuilder /\ WF_vars(NextBuilder)

---------------------------------------------------------------------------
(* Properties of the build *)

\* method m has been called on section i in the current build
Called(m, i) == \E k \in 1..Len(log) : log[k] = <<m, i>>

\* number of sections of the Flash
NbSections == Len(flash.sections)

\* the calls of a complete build of n sections, in order
BuildOrder(n) ==
    AsSeq([k \in 1..(2 * n) |->
        IF k <= n THEN <<"set_content", k>> ELSE <<"finalize", k - n>>])

RECURSIVE LayoutOffset(_)
\* the offset of section i in the finished layout, from the configuration alone
LayoutOffset(i) ==
    IF i = 1 THEN 0
    ELSE LayoutOffset(i - 1)
         + (IF flash.sections[i - 1].size = -1
            THEN flash.size - LayoutOffset(i - 1)
            ELSE flash.sections[i - 1].size)

\* the end of section i in the finished layout
LayoutEnd(i) ==
    IF flash.sections[i].size = -1 THEN flash.size
    ELSE LayoutOffset(i) + flash.sections[i].size

Range(q) == {q[k] : k \in 1..Len(q)}

\* section i is a ROM or app-binary section whose set_content has run on a binary
BinaryLaidOut(i) ==
    /\ flash.sections[i].kind \in {"rom", "app"}
    /\ flash.sections[i].binary.given
    /\ Called("set_content", i)

\* the XIP virtual address and the XIP page size section i is configured with
XipVaddrOf(i) ==
    IF flash.sections[i].kind = "rom" THEN flash.sections[i].xip_virtual_address
    ELSE XIP_VADDR

XipPageSizeOf(i) ==
    IF flash.sections[i].kind = "rom"
    THEN XIP_PAGE_BASE * Pow2(flash.sections[i].xip_page_size)
    ELSE XIP_PAGE_BASE

\* the loadable segments of the binary of section i, XIP ones first
XipFirst(i) ==
    SelectSeq(flash.sections[i].binary.segs, LAMBDA g : g.base >= XipVaddrOf(i))
    \o SelectSeq(flash.sections[i].binary.segs, LAMBDA g : g.base < XipVaddrOf(i))

\* the data blocks of section i that a segment header with an XIP address
\* points to
XipBlocks(i) ==
    { b \in Range(sect[i].segments) :
        \E h \in Range(sect[i].segment_headers) :
            /\ Unpack(GetBytes(sect[i], h, "mem_addr")) >= XipVaddrOf(i)
            /\ Unpack(GetBytes(sect[i], h, "flash_offset"))
                   = StructOffset(sect[i], b) - sect[i].offset }

\* the end of struct b of section i
StructEnd(i, b) == sect[i].structs[b].off + sect[i].structs[b].len

\* C3: in a ROM or app-binary section with at least one XIP segment, after
\* set_content the XIP data blocks form one contiguous byte range, the first of
\* them starts at a multiple of the XIP page size, and the header's
\* xip_flash_base is the offset of that first block when no flash address is
\* configured.
C3_XipContiguous ==
    \A i \in 1..NbSections :
        (BinaryLaidOut(i)
         /\ \E g \in Range(flash.sections[i].binary.segs) : g.base >= XipVaddrOf(i))
        => LET X == XipBlocks(i)
               lo == CHOOSE b \in X : \A c \in X :
                         StructOffset(sect[i], b) <= StructOffset(sect[i], c)
           IN  /\ Cardinality(X) = Cardinality(
                      {k \in 1..Len(flash.sections[i].binary.segs) :
                          flash.sections[i].binary.segs[k].base >= XipVaddrOf(i)})
               /\ \A b \in X : b = lo \/ \E c \in X :
                      c # b /\ StructEnd(i, c) = StructOffset(sect[i], b)
               /\ \A b \in Range(sect[i].segments) \ X :
                      StructOffset(sect[i], b) >= StructEnd(i, lo)
                      => \A c \in X : StructEnd(i, c) <= StructOffset(sect[i], b)
               /\ StructOffset(sect[i], lo) % XipPageSizeOf(i) = 0
               /\ (flash.sections[i].kind = "app"
                   \/ flash.sections[i].xip_flash_address = -1)
                  => GetBytes(sect[i], sect[i].header, "xip_flash_base")
                         = Pack(4, StructOffset(sect[i], lo))

\* a finished build whose binary section starts off any page boundary and
\* holds two XIP segments
C3_Witness ==
    \E i \in 1..NbSections :
        /\ BinaryLaidOut(i)
        /\ sect[i].offset % XIP_PAGE_BASE # 0
        /\ Cardinality(XipBlocks(i)) = 2
        /\ pc = "done"

\* the standard CRC32 check value 0xCBF43926
CRC_CHECK == HexBits(<<12, 11, 15, 4, 3, 9, 2, 6>>)

\* C9: the per-segment CRC32 is a function of the segment's bytes alone, lies
\* in [0, 2^32) and is 0xCBF43926 for the message "123456789".
C9_SegmentCrc ==
    \A i \in 1..NbSections : BinaryLaidOut(i) =>
        \A k \in 1..Len(sect[i].binary[1].segments) :
            LET b == sect[i].binary[1].segments[k]
                raw == flash.sections[i].binary.segs[k].data
            IN  /\ InU32(b.crc)
                /\ \A j \in 1..Len(sect[i].binary[1].segments) :
                       flash.sections[i].binary.segs[j].data = raw
                       => sect[i].binary[1].segments[j].crc = b.crc
                /\ raw = CheckMessage => SameInt(b.crc, CRC_CHECK)

\* a laid-out binary that holds the message "123456789" as a segment, in its
\* header the check value
C9_Witness ==
    \E i \in 1..NbSections :
        /\ BinaryLaidOut(i)
        /\ \E k \in 1..Len(sect[i].segment_headers) :
              /\ XipFirst(i)[k].data = CheckMessage
              /\ GetBytes(sect[i], sect[i].segment_headers[k], "crc")
                     = <<38, 57, 244, 203>>

\* the bytes a data block holds for segment g of section i: the segment's bytes,
\* or for a compressed app binary its one block, prefixed by raw length - 1 and
\* stored length - 1, compressed when that is shorter
StoredBytes(i, g) ==
    IF flash.sections[i].kind = "app" /\ flash.sections[i].compressed
    THEN LET p == IF Len(g.lz4[1]) < Len(g.data) THEN g.lz4[1] ELSE g.data
         IN  Pack(2, Len(g.data) - 1) \o Pack(2, Len(p) - 1) \o p
    ELSE g.data

\* what C10 states of section i, a data block holding Holds(g) for segment g
SegmentTable(i, Holds(_)) ==
    LET n == Len(flash.sections[i].binary.segs)
        hs == sect[i].segment_headers
        bs == sect[i].segments
    IN  /\ GetBytes(sect[i], sect[i].header, "nb_segments") = Pack(4, n)
        /\ Len(hs) = n
        /\ Len(bs) = n
        /\ \A k \in 1..n :
              /\ StructOffset(sect[i], hs[k]) = StructEnd(i, IF k = 1 THEN sect[i].header
                                                             ELSE hs[k - 1])
              /\ k > 1 => StructOffset(sect[i], bs[k]) = StructEnd(i, bs[k - 1])
              /\ StructOffset(sect[i], bs[k]) >= StructEnd(i, hs[n])
              /\ LET g == XipFirst(i)[k]
                     h == sect[i].structs[hs[k]].f
                 IN  /\ h.flash_offset
                            = Pack(4, StructOffset(sect[i], bs[k]) - sect[i].offset)
                     /\ h.mem_addr = Pack(4, g.base)
                     /\ h.size = Pack(4, Len(g.data))
                     /\ h.crc = PackBits(4, ComputeCrcSegment(g.data))
                     /\ sect[i].structs[bs[k]].f.data = Holds(g)
                     /\ sect[i].structs[bs[k]].len = Len(Holds(g))

\* C10 as stated: after set_content of a ROM or app-binary section with n
\* segments, nb_segments is n, n segment headers are followed by n data blocks
\* in XIP-first order, header i gives the relative offset of data block i, the
\* base, byte length and CRC32 of segment i, and data block i holds exactly the
\* bytes of segment i.
C10_BlocksHoldSegmentBytes ==
    \A i \in 1..NbSections : BinaryLaidOut(i) => SegmentTable(i, LAMBDA g : g.data)

\* C10, amended: as above, except that in an app binary built with compression
\* data block i holds the block-encoded form of segment i (its length the
\* stored length) while the header's size and crc still describe the raw bytes.
C10_BlocksHoldStoredBytes ==
    \A i \in 1..NbSections :
        BinaryLaidOut(i) => SegmentTable(i, LAMBDA g : StoredBytes(i, g))

\* a laid-out compressed app binary of two segments, one stored compressed and
\* one stored raw
C10_Witness ==
    \E i \in 1..NbSections :
        /\ BinaryLaidOut(i)
        /\ flash.sections[i].kind = "app"
        /\ flash.sections[i].compressed
        /\ Len(sect[i].segments) = 2
        /\ \E k \in 1..2 : sect[i].structs[sect[i].segments[k]].len
                               < 4 + Len(XipFirst(i)[k].data)
        /\ \E k \in 1..2 : sect[i].structs[sect[i].segments[k]].len
                               = 4 + Len(XipFirst(i)[k].data)

\* section i is a partition table v2 whose finalize has run
TableFinalized(i) == flash.sections[i].kind = "pt2" /\ Called("finalize", i)

\* the serialized bytes of records lo..hi of the table of section i, in table
\* order, as the finished section holds them
RecordBytes(i, lo, hi) ==
    Concat(AsSeq([k \in 1..(hi - lo + 1) |->
        PT2AppendFields(sect[i].structs[sect[i].section_headers[lo + k - 1]].f)]))

\* the header struct of the table of section i
TableHeader(i) == sect[i].structs[sect[i].header].f

\* the serialized header fields crc_header covers, as the finished section
\* holds them
CoveredHeaderBytes(i) ==
    TableHeader(i).magic_number \o TableHeader(i).partition_table_version
    \o TableHeader(i).nb_entries \o TableHeader(i).nb_entries_max
    \o TableHeader(i).flags \o TableHeader(i).crc_table

\* C4: after finalize of a partition table v2 the stored crc_header is the
\* CRC32 (seed 0xFFFFFFFF) of the final bytes of magic_number,
\* partition_table_version, nb_entries, nb_entries_max, flags and crc_table, and
\* the stored crc_table is the CRC32 of the final bytes of the records it
\* covers; nothing a checksum covers changes once it is computed, so both still
\* match when the build is done.
C4_StoredCrcsMatchFinalBytes ==
    \A i \in 1..NbSections : TableFinalized(i) =>
        /\ TableHeader(i).crc_header
               = PackBits(4, compute_crc(ONES32, CoveredHeaderBytes(i)))
        /\ TableHeader(i).crc_table
               = PackBits(4, compute_crc(ONES32,
                     RecordBytes(i, 1, Unpack(TableHeader(i).nb_entries))))

\* a finished build whose partition table, first of two sections, holds two
\* real records and placeholders
C4_Witness ==
    /\ pc = "done"
    /\ NbSections = 2
    /\ TableFinalized(1)
    /\ Unpack(TableHeader(1).nb_entries) = 2
    /\ Unpack(TableHeader(1).nb_entries_max) > 2
    /\ sect[1].structs[sect[1].section_headers[2]].f.offset = Pack(4, sect[2].offset)

\* C5: crc_table is computed over the serialized bytes of all nb_entries_max
\* records, real and placeholder, in table order, and crc_header over the
\* header fields other than crc_header.
C5_CrcTableCoversAllRecords ==
    \A i \in 1..NbSections : TableFinalized(i) =>
        /\ TableHeader(i).crc_table
               = PackBits(4, compute_crc(ONES32,
                     RecordBytes(i, 1, Unpack(TableHeader(i).nb_entries_max))))
        /\ TableHeader(i).crc_header
               = PackBits(4, compute_crc(ONES32, CoveredHeaderBytes(i)))

\* section i is a WriteFs section whose set_content has laid out its files
FilesLaidOut(i) ==
    /\ flash.sections[i].kind = "wfs"
    /\ flash.sections[i].files.given
    /\ Len(flash.sections[i].files.list) >= 1
    /\ Called("set_content", i)

\* the fields of the k-th header (file or free block) of WriteFs section i
FileHeader(i, k) == sect[i].structs[sect[i].file_headers[k]].f

\* the offset of the k-th header of WriteFs section i from the section's base
RelOffset(i, k) == StructOffset(sect[i], sect[i].file_headers[k]) - sect[i].offset

\* C6: after set_content of a WriteFs section of n >= 1 files, every file
\* header but the last holds in next the relative offset of the header after
\* it; the last file header holds the relative offset of the free block when
\* one is emitted and 0xFFFFFFFF when none is, whatever space remains in the
\* section.
C6_NextChain ==
    \A i \in 1..NbSections : (FilesLaidOut(i) /\ pc \in {"finalize", "done"}) =>
        LET n == Len(flash.sections[i].files.list)
        IN  /\ \A k \in 1..(n - 1) :
                   FileHeader(i, k).next = Pack(4, RelOffset(i, k + 1))
            /\ FileHeader(i, n).next
                   = IF Len(sect[i].file_headers) > n
                     THEN Pack(4, RelOffset(i, n + 1))
                     ELSE NEXT_NONE

\* C7: every header a WriteFs section of alignment a emits lies at a multiple
\* of a from the section's base and holds a size that is a multiple of a, for a
\* file the smallest one not below the file's length (10 -> 4096 and
\* 4100 -> 8192 for a = 4096).
C7_HeadersAligned ==
    \A i \in 1..NbSections : FilesLaidOut(i) =>
        LET a == flash.sections[i].prop_size
            files == flash.sections[i].files.list
        IN  \A k \in 1..Len(sect[i].file_headers) :
                /\ RelOffset(i, k) % a = 0
                /\ Unpack(FileHeader(i, k).size) % a = 0
                /\ k <= Len(files) =>
                      /\ Unpack(FileHeader(i, k).size) >= files[k]
                      /\ Unpack(FileHeader(i, k).size) - a < files[k]
                      /\ (a = 4096 /\ files[k] = 10)
                             => Unpack(FileHeader(i, k).size) = 4096
                      /\ (a = 4096 /\ files[k] = 4100)
                             => Unpack(FileHeader(i, k).size) = 8192

\* a laid-out WriteFs section of alignment 4096 with files of 10 and 4100
\* bytes and a free block behind them
C7_Witness ==
    /\ FilesLaidOut(1)
    /\ pc = "done"
    /\ flash.sections[1].prop_size = 4096
    /\ flash.sections[1].files.list = <<10, 4100>>
    /\ Len(sect[1].file_headers) = 3
    /\ RelOffset(1, 2) = 8192
    /\ RelOffset(1, 3) = 20480

\* what a section contributes to the image: its offset and the structs of its
\* top struct, in order
SectionImage(S) ==
    [ offset |-> S.offset,
      structs |-> AsSeq([k \in 1..Len(S.top) |-> S.structs[S.top[k]]]) ]

\* C8: running the two-phase build a second time on the same configuration
\* gives the image of the first run: as many records, headers and data blocks,
\* at the same offsets, with the same field values, nothing carried over from
\* the first run.
C8_SecondBuildSameImage ==
    (run = 2 /\ pc = "done") =>
        \A i \in 1..NbSections : SectionImage(sect[i]) = SectionImage(first[i])

---------------------------------------------------------------------------
(* Properties of the secret storage *)

\* the secret storage sections whose set_content was called
SecSections ==
    {i \in 1..NbSections : flash.sections[i].kind = "sec" /\ Called("set_content", i)}

\* the key-code record made for descriptor k of section i
KcRecord(i, k) == sect[i].structs[sect[i].kc_list[k]].f

\* the least n with n * unit >= x
CeilDiv(x, unit) == CHOOSE n \in 0..x : n * unit >= x /\ (n - 1) * unit < x

\* whether descriptor d is stored wrapped: as its 'wrapped' entry says, and
\* iff its size is below 1024 when it has none
StoredWrapped(d) ==
    IF d.wrapped = "none" THEN d.size < 1024 ELSE d.wrapped = "true"

\* C11: for every key-code descriptor of source size s, the wrapped flag is
\* selected as wrapped iff s < 1024 when it is not given; the emitted kc_size is
\* 36 + floor(s/8) + 16*ceil(s/384) when wrapped (60 for s = 64) and floor(s/8)
\* rounded up to the next multiple of 16 when unwrapped.
C11_KcSize ==
    \A i \in SecSections : \A k \in 1..Len(sect[i].kc_list) :
        LET d == flash.sections[i].kc_list[k]
            s == d.size
            r == KcRecord(i, k)
        IN  /\ r.flags = Pack(1, IF StoredWrapped(d) THEN 1 ELSE 0)
            /\ StoredWrapped(d) =>
                  /\ r.kc_size = Pack(2, 36 + (s \div 8) + 16 * CeilDiv(s, 384))
                  /\ s = 64 => r.kc_size = Pack(2, 60)
            /\ ~StoredWrapped(d) =>
                  r.kc_size = Pack(2, 16 * CeilDiv(s \div 8, 16))
            /\ Len(r.kc) = Unpack(r.kc_size)

\* a finished build whose secret storage holds a key-code wrapped by automatic
\* selection, of a size that is no multiple of 384, and an unwrapped one whose
\* eighth is no multiple of 16
C11_Witness ==
    /\ pc = "done"
    /\ \E i \in SecSections :
          /\ Len(sect[i].kc_list) = 2
          /\ flash.sections[i].kc_list[1] = [size |-> 100, wrapped |-> "none"]
          /\ KcRecord(i, 1).flags = Pack(1, 1)
          /\ flash.sections[i].kc_list[2].size = 1500
          /\ KcRecord(i, 2).flags = Pack(1, 0)

\* the size rule of the key-codes: a multiple of 1024 from 1024 on, of 64 below
KcSizeFits(s) == IF s >= 1024 THEN s % 1024 = 0 ELSE s % 64 = 0

\* C12 as stated: set_content of the secret storage fails with a
\* size-validation error for every key-code that is stored unwrapped and whose
\* source size breaks the size rule, and accepts the unwrapped key-codes whose
\* size satisfies it.
C12_UnwrappedSizeValidated ==
    \A i \in SecSections :
        LET descr == flash.sections[i].kc_list
        IN  /\ (\E k \in 1..Len(descr) :
                    ~StoredWrapped(descr[k]) /\ ~KcSizeFits(descr[k].size))
                    => sect[i].raised = "RuntimeError"
            /\ (\A k \in 1..Len(descr) :
                    ~StoredWrapped(descr[k]) /\ KcSizeFits(descr[k].size))
                    => sect[i].raised = "none"

\* C12, amended: set_content of the secret storage fails with the
\* size-validation error exactly when some key-code whose 'wrapped' entry is
\* explicitly true breaks the size rule, and the failure ends the build; a
\* key-code stored unwrapped, or wrapped by automatic selection, is accepted
\* whatever its size.
C12_WrappedSizeValidated ==
    \A i \in SecSections :
        LET descr == flash.sections[i].kc_list
            rejected == {k \in 1..Len(descr) :
                            descr[k].wrapped = "true" /\ ~KcSizeFits(descr[k].size)}
        IN  /\ rejected # {} <=> sect[i].raised = "RuntimeError"
            /\ rejected = {} <=> sect[i].raised = "none"
            /\ rejected # {} =>
                  /\ pc = "error"
                  /\ ~Called("finalize", i)
                  /\ \A k \in rejected : Len(sect[i].kc_list) < k
            /\ rejected = {} => Len(sect[i].kc_list) = Len(descr)

\* a build that accepted an unwrapped key-code of 1500 bits and then failed on
\* an explicitly wrapped one of 100 bits
C12_Witness ==
    /\ pc = "error"
    /\ \E i \in SecSections :
          /\ flash.sections[i].kc_list =
                <<[size |-> 1500, wrapped |-> "false"], [size |-> 100, wrapped |-> "true"]>>
          /\ Len(sect[i].kc_list) = 1
          /\ KcRecord(i, 1).flags = Pack(1, 0)
          /\ sect[i].raised = "RuntimeError"

\* the bytes struct b of section i holds in the image, for the structs of the
\* secret storage that follow the secure header
SecStructBytes(i, b) ==
    LET st == sect[i].structs[b]
    IN  IF st.type = "SecretStorageMetaHeader"
        THEN st.f.kc_number \o Concat(st.f.offset) \o st.f.padding0
        ELSE st.f.kc_size \o st.f.kc_so_id \o st.f.flags \o st.f.kc \o st.f.padding1

RECURSIVE SecPayload(_, _)
\* the bytes of structs 2..b of section i, in layout order
SecPayload(i, b) ==
    IF b < 2 THEN <<>> ELSE SecPayload(i, b - 1) \o SecStructBytes(i, b)

RECURSIVE KcBytesBefore(_, _)
\* the bytes the key-code records before record k of section i take
KcBytesBefore(i, k) ==
    IF k = 1 THEN 0
    ELSE KcBytesBefore(i, k - 1) + sect[i].structs[sect[i].kc_list[k - 1]].len

\* C19: after finalize of a secret storage section the secure header's crc is
\* the CRC32, seeded with 0xFFFFFFFF, of the metadata header bytes followed by
\* every activation-code and key-code record in layout order, each with its
\* final field values, the key-code offsets and kc_number of set_content
\* included.
C19_SecureCrc ==
    \A i \in SecSections : Called("finalize", i) =>
        LET S == sect[i]
            meta == S.structs[S.header_meta].f
        IN  /\ S.header_secure = 1 /\ S.header_meta = 2
            /\ S.ac_list = <<>>
            /\ S.kc_list = AsSeq([k \in 1..Len(flash.sections[i].kc_list) |-> k + 2])
            /\ Len(S.structs) = Len(S.kc_list) + 2
            /\ \A b \in 2..Len(S.structs) :
                  /\ S.structs[b].off = S.structs[b - 1].off + S.structs[b - 1].len
                  /\ S.structs[b].len = Len(SecStructBytes(i, b))
            /\ meta.kc_number = Pack(1, Len(S.kc_list))
            /\ \A k \in 1..Len(S.kc_list) :
                  meta.offset[k] = Pack(4, KcBytesBefore(i, k))
            /\ GetBytes(S, S.header_secure, "crc")
                  = PackBits(4, compute_crc(ONES32, SecPayload(i, Len(S.structs))))

\* a finished build of a secret storage with two key-codes, the second at a
\* non-zero offset
C19_Witness ==
    /\ pc = "done"
    /\ \E i \in SecSections :
          /\ Called("finalize", i)
          /\ Len(sect[i].kc_list) = 2
          /\ sect[i].structs[sect[i].header_meta].f.offset[2] # Zeros(4)
          /\ GetBytes(sect[i], sect[i].header_secure, "crc") # Zeros(4)

---------------------------------------------------------------------------
(* Properties of the volume table *)

\* the volume tables whose set_content was called, by mode
VolSections(explicit) ==
    {i \in 1..NbSections :
        /\ flash.sections[i].kind = "vol"
        /\ flash.sections[i].volumes.given = explicit
        /\ Called("set_content", i)}

\* some section of the Flash has that name
Resolves(name) == \E j \in 1..NbSections : flash.sections[j].name = name

\* the position, from 0, of the section of that name in the Flash
IndexOf(name) == (CHOOSE j \in 1..NbSections : flash.sections[j].name = name) - 1

\* C13: in explicit volume mode, every listed partition name that resolves to a
\* section gives an entry whose uuid is that section's index in the registry;
\* a name that resolves to no section makes the build fail with a fatal
\* cross-reference error, never with an unrelated internal error and never
\* with an entry of defaulted uuid.
C13_ExplicitResolution ==
    \A i \in VolSections(TRUE) :
        LET descr == flash.sections[i].volumes.list
            S == sect[i]
        IN  IF \A v \in 1..Len(descr) : \A k \in 1..Len(descr[v].partitions) :
                  Resolves(descr[v].partitions[k])
            THEN /\ S.raised = "none"
                 /\ Len(S.volume_entries_lists) = Len(descr)
                 /\ \A v \in 1..Len(descr) : \A k \in 1..Len(descr[v].partitions) :
                       GetBytes(S, S.volume_entries_lists[v][k], "uuid")
                           = Pack(2, IndexOf(descr[v].partitions[k]))
            ELSE /\ pc = "error"
                 /\ S.raised = "CrossReferenceError"

\* the sections of the Flash whose partition type is the factory/meta type
\* 0x02 (factory) or any other type (not factory)
SectionsOfVolume(factory) ==
    {j \in 1..NbSections : (PartitionType(flash.sections[j]) = 2) = factory}

\* the k-th smallest member of a set of integers
Kth(set, k) == CHOOSE j \in set : Cardinality({h \in set : h < j}) = k - 1

\* the default volume headed by struct vid of section i, with its entries,
\* holds the sections of its partition type in section order, each under its
\* section index, then exactly 4 zero-filled entries
DefaultVolumeHolds(i, vid, entries, factory) ==
    LET S == sect[i]
        members == SectionsOfVolume(factory)
        n == Cardinality(members)
    IN  /\ S.structs[vid].type = "VolumeHeader"
        /\ GetBytes(S, vid, "nb_partitions") = Pack(1, n)
        /\ GetBytes(S, vid, "max_nb_partitions") = Pack(1, n + 4)
        /\ Len(entries) = n + 4
        /\ \A k \in 1..Len(entries) :
              /\ entries[k] = vid + k
              /\ S.structs[entries[k]].type = "VolumeEntry"
              /\ S.structs[entries[k]].off = S.structs[vid].off + 24 + 20 * (k - 1)
        /\ \A k \in 1..n :
              /\ GetBytes(S, entries[k], "uuid") = Pack(2, Kth(members, k) - 1)
              /\ GetBytes(S, entries[k], "flags") = Zeros(2)
        /\ \A k \in (n + 1)..(n + 4) :
              S.structs[entries[k]].f = [flags |-> Zeros(2), uuid |-> Zeros(2),
                                         label |-> Zeros(16)]

\* C17: in default volume mode exactly two volumes are built, "app" (uuid 0,
\* bootable flag set) then "factory" (uuid 1); every section of the Flash is in
\* exactly one of them, in section order, under its section index, factory iff
\* its partition type is 0x02; each volume's real entries are followed by
\* exactly 4 zero-filled placeholder entries and max_nb_partitions is
\* nb_partitions + 4.
C17_DefaultVolumes ==
    \A i \in VolSections(FALSE) :
        LET S == sect[i]
        IN  /\ S.raised = "none"
            /\ S.volumes_list = <<S.volume_app, S.volume_factory>>
            /\ S.volume_app = S.header + 1
            /\ S.volume_factory = S.volume_app + Len(S.volume_app_entries) + 1
            /\ Len(S.structs) = S.volume_factory + Len(S.volume_factory_entries)
            /\ GetBytes(S, S.volume_app, "uuid") = Pack(2, 0)
            /\ GetBytes(S, S.volume_app, "flags") = Pack(2, 1)
            /\ GetBytes(S, S.volume_app, "label") = <<97, 112, 112>> \o Zeros(13)
            /\ GetBytes(S, S.volume_factory, "uuid") = Pack(2, 1)
            /\ GetBytes(S, S.volume_factory, "label")
                  = <<102, 97, 99, 116, 111, 114, 121>> \o Zeros(9)
            /\ DefaultVolumeHolds(i, S.volume_app, S.volume_app_entries, FALSE)
            /\ DefaultVolumeHolds(i, S.volume_factory, S.volume_factory_entries, TRUE)
            /\ Cardinality(SectionsOfVolume(FALSE)) + Cardinality(SectionsOfVolume(TRUE))
                  = NbSections

\* a default volume table behind a section of another partition type: the app
\* volume holds section 0, the factory volume the table itself under index 1
C17_Witness ==
    \E i \in VolSections(FALSE) :
        /\ i = 2
        /\ PartitionType(flash.sections[1]) # 2
        /\ Len(sect[i].volume_app_entries) = 5
        /\ Len(sect[i].volume_factory_entries) = 5
        /\ GetBytes(sect[i], sect[i].volume_factory_entries[1], "uuid") = Pack(2, 1)

\* the bytes struct b of volume table i holds in the image
VolStructBytes(i, b) ==
    LET st == sect[i].structs[b]
    IN  IF st.type = "VolumeHeader"
        THEN st.f.flags \o st.f.uuid \o st.f.label \o st.f.nb_partitions
             \o st.f.max_nb_partitions \o st.f.boot_order \o st.f.boot_count
        ELSE st.f.flags \o st.f.uuid \o st.f.label

RECURSIVE VolPayload(_, _)
\* the bytes of structs 2..b of volume table i: what follows the table header
VolPayload(i, b) ==
    IF b < 2 THEN <<>> ELSE VolPayload(i, b - 1) \o VolStructBytes(i, b)

\* C18: after finalize of a volume table, crc_vtable is the CRC32 of the
\* serialized volume headers and entries in layout order, which are exactly
\* the section's bytes after the table header; max_size is the byte length of
\* that payload, nb_volumes the number of volumes, and crc_header the CRC32 of
\* the final magic_number, nb_volumes, max_size and crc_vtable.
C18_VolumeTableCrcs ==
    \A i \in 1..NbSections :
        flash.sections[i].kind = "vol" /\ Called("finalize", i) =>
        LET S == sect[i]
            h == S.structs[S.header].f
            payload == VolPayload(i, Len(S.structs))
        IN  /\ S.header = 1
            /\ \A b \in 2..Len(S.structs) :
                  /\ S.structs[b].off = S.structs[b - 1].off + S.structs[b - 1].len
                  /\ S.structs[b].len = Len(VolStructBytes(i, b))
            /\ S.cur = S.offset + 15 + Len(payload)
            /\ h.crc_vtable = PackBits(4, compute_crc(ONES32, payload))
            /\ h.max_size = Pack(4, Len(payload))
            /\ h.nb_volumes
                  = Pack(1, Cardinality({b \in 1..Len(S.structs) :
                                            S.structs[b].type = "VolumeHeader"}))
            /\ h.nb_volumes
                  = Pack(1, IF flash.sections[i].volumes.given
                            THEN Len(flash.sections[i].volumes.list) ELSE 2)
            /\ h.magic_number = Pack(2, 442)
            /\ h.crc_header
                  = PackBits(4, compute_crc(ONES32,
                        h.magic_number \o h.nb_volumes \o h.max_size \o h.crc_vtable))

\* a finished build of a volume table with two configured volumes, named and
\* free entries
C18_Witness ==
    /\ pc = "done"
    /\ \E i \in VolSections(TRUE) :
          /\ Called("finalize", i)
          /\ Len(sect[i].volumes_list) = 2
          /\ Len(sect[i].structs) > 5
          /\ GetBytes(sect[i], sect[i].header, "crc_vtable") # Zeros(4)

---------------------------------------------------------------------------
(* Properties of the recovery meta-table and of the next-section pointers *)

\* the meta-tables whose finalize was called
MetaFinalized ==
    {i \in 1..NbSections : flash.sections[i].kind = "meta" /\ Called("finalize", i)}

\* what a recovery pointer must hold for the property value name: the offset
\* of the section of that name, the bytes of 0xDEADBEEF (EF BE AD DE) when
\* the property is unset or names no section
PointerFor(name) ==
    IF name # "none" /\ Resolves(name)
    THEN Pack(4, LayoutOffset(IndexOf(name) + 1))
    ELSE <<239, 190, 173, 222>>

\* C14: after finalize of the recovery meta-table each of ssbl_a_addr,
\* ssbl_b_addr, pt_a_addr, pt_b_addr is the offset of the section named by its
\* property when the property is set and such a section exists, and the
\* sentinel 0xDEADBEEF otherwise; an unset or unresolved name never makes
\* finalize fail, and resolving one pointer never changes another.
C14_RecoveryPointers ==
    \A i \in MetaFinalized :
        LET S == sect[i]
            cfg == flash.sections[i]
            ssbl == S.structs[S.ssbl_header].f
            pt == S.structs[S.partition_table_header].f
        IN  /\ ssbl.ssbl_a_addr = PointerFor(cfg.ssbl_a)
            /\ ssbl.ssbl_b_addr = PointerFor(cfg.ssbl_b)
            /\ pt.pt_a_addr = PointerFor(cfg.pt_a)
            /\ pt.pt_b_addr = PointerFor(cfg.pt_b)
            /\ S.raised = "none"
            /\ pc \in {"finalize", "done"}

\* a finished build whose meta-table names the section after it, the section
\* before it or itself, and a section that does not exist
C14_Witness ==
    /\ pc = "done"
    /\ NbSections = 2
    /\ \E i \in MetaFinalized :
          /\ flash.sections[i].ssbl_a = "s1"
          /\ flash.sections[i].pt_b = "missing"
          /\ GetBytes(sect[i], sect[i].ssbl_header, "ssbl_a_addr") = Pack(4, sect[2].offset)
          /\ sect[2].offset > 0
          /\ GetBytes(sect[i], sect[i].partition_table_header, "pt_b_addr")
                = <<239, 190, 173, 222>>

\* the bytes of the next-section field of section i, a ROM section or a
\* meta-table
NextSectionField(i) ==
    IF flash.sections[i].kind = "rom"
    THEN GetBytes(sect[i], sect[i].header, "first")
    ELSE GetBytes(sect[i], sect[i].next_section, "next_section")

\* C16: after finalize of a ROM section or of a recovery meta-table the
\* header's next_section field is the offset of the section that follows it in
\* the Flash when there is one, and own offset + own size when it is the last.
C16_NextSection ==
    \A i \in 1..NbSections :
        flash.sections[i].kind \in {"rom", "meta"} /\ Called("finalize", i) =>
            /\ i < NbSections =>
                  /\ NextSectionField(i) = Pack(4, LayoutOffset(i + 1))
                  /\ sect[i + 1].offset = LayoutOffset(i + 1)
            /\ i = NbSections =>
                  /\ NextSectionField(i) = Pack(4, LayoutEnd(i))
                  /\ LayoutEnd(i) = sect[i].offset + GetSize(flash, sect, i)

\* a finished build of a meta-table followed by a ROM section with a binary:
\* the first points at the second, the second at its own end
C16_Witness ==
    /\ pc = "done"
    /\ NbSections = 2
    /\ flash.sections[1].kind = "meta"
    /\ flash.sections[2].kind = "rom"
    /\ sect[2].binary # <<>>
    /\ NextSectionField(1) = Pack(4, sect[2].offset)
    /\ NextSectionField(2) = Pack(4, sect[2].offset + flash.sections[2].size)

---------------------------------------------------------------------------
(* What set_content reads *)

\* offsets and sizes the sections after section i could have had instead
OtherOffsets == {0, 256, 512}

OtherSizes == {-1, 64, 4096}

\* the Flash with the declared size of every section after i replaced by size
FlashWithLaterSizes(i, size) ==
    [flash EXCEPT !.sections =
        AsSeq([j \in 1..NbSections |->
            IF j > i THEN [flash.sections[j] EXCEPT !.size = size]
            ELSE flash.sections[j]])]

\* the section objects as set_content of section i found them in this build,
\* but with every section after i at offset off: the sections before i as they
\* are, section i fresh
SectionsWithLaterOffsets(i, off) ==
    AsSeq([j \in 1..NbSections |->
        IF j < i THEN sect[j]
        ELSE IF j = i THEN NewSection
        ELSE [sect[j] EXCEPT !.offset = off, !.cur = off]])

\* C15: during the set_content phase no section reads the offset or size of a
\* section positioned later than itself in the Flash: what its set_content
\* builds is a function of its own offset, the Flash size and the names,
\* indices and partition types of the sections, and is unchanged by any other
\* offset or size of the later sections.
C15_SetContentIgnoresLaterSections ==
    pc \in {"set_content", "error"} =>
        \A i \in 1..NbSections : Called("set_content", i) =>
            \A off \in OtherOffsets : \A size \in OtherSizes :
                sect[i] = SectionSetContent(FlashWithLaterSizes(i, size),
                                            SectionsWithLaterOffsets(i, off),
                                            i, sect[i].offset)

\* the set_content phase of a Flash where a partition table, a WriteFs section
\* with a file or a default volume table is followed by another section, its
\* set_content done and the later section's not
C15_Witness ==
    /\ pc = "set_content"
    /\ idx = 2
    /\ NbSections = 2
    /\ Called("set_content", 1)
    /\ flash.sections[1].kind = "pt2"
    /\ Len(sect[1].section_headers) = 2
    /\ sect[2].offset = 0

---------------------------------------------------------------------------
(* The byte budget of the partition table *)

---------------------------------------------------------------------------
(* is_empty of the sections *)

\* a Python boolean as the outcome of a call
Returned(b) == IF b THEN "true" ELSE "false"

RECURSIVE SectionIsEmpty(_, _, _, _)
RECURSIVE PT2IsEmptyFrom(_, _, _, _, _)

\* a loop of is_empty that answers True whatever the sections report
PT2IsEmptyAlways(F, S, i, k, active) == "true"

\* the loop of PartitionTableSectionV2.is_empty from the k-th referenced
\* section on: False at the first section that is not empty, True at the end
\* of the list; an exception of a nested call propagates
PT2IsEmptyFrom(F, S, i, k, active) ==
    IF k > Len(S[i].sections) THEN "true"
    ELSE LET r == SectionIsEmpty(F, S, S[i].sections[k], active \cup {i})
         IN  IF r = "true" THEN PT2IsEmptyFrom(F, S, i, k + 1, active)
             ELSE r

\* PartitionTableSectionV2.is_empty called while the calls of the tables of
\* `active` are on the stack: a call on a table that is already on the stack
\* repeats itself without end, which CPython ends with RecursionError
PT2IsEmpty(F, S, i, active) ==
    IF i \in active THEN "RecursionError"
    ELSE PT2IsEmptyFrom(F, S, i, 1, active)

\* is_empty of the class of section i: "true", "false" or the exception raised
SectionIsEmpty(F, S, i, active) ==
    CASE F.sections[i].kind = "rom" -> Returned(RomIsEmpty(S[i]))
      [] F.sections[i].kind = "app" -> Returned(AppIsEmpty(S[i]))
      [] F.sections[i].kind = "pt2" -> PT2IsEmpty(F, S, i, active)
      [] F.sections[i].kind = "wfs" -> Returned(WriteFsIsEmpty(S[i]))
      [] F.sections[i].kind = "sec" -> Returned(SecretStorageIsEmpty(S[i]))
      [] F.sections[i].kind = "vol" -> Returned(VolumeTableIsEmpty(S[i]))
      [] F.sections[i].kind = "meta" -> Returned(MetaTableIsEmpty(S[i]))

\* what a call of is_empty on section i of the Flash gives in this state
IsEmpty(i) == SectionIsEmpty(flash, sect, i, {})

\* the partition tables of the Flash once every set_content has completed
TablesSet ==
    { i \in 1..NbSections :
        flash.sections[i].kind = "pt2" /\ pc \in {"finalize", "done"} }

C30_IsEmptyReturnsBoolean ==
    \A i \in TablesSet : IsEmpty(i) \in {"true", "false"}

---------------------------------------------------------------------------
(* Sections without binary *)

\* the finalized ROM or app-binary sections of kind k configured without binary
NoBinary(k) ==
    { i \in 1..NbSections :
        /\ flash.sections[i].kind = k
        /\ ~flash.sections[i].binary.given
        /\ Called("finalize", i) }

\* the address of what follows section i: the offset of the next section, the
\* end of the section when it is the last
NextAddress(i) ==
    IF i < NbSections THEN sect[i + 1].offset
    ELSE sect[i].offset + GetSize(flash, sect, i)

\* section i emits one struct and no more, a header whose next-section field
\* holds the address of what follows the section
MinimalHeaderOnly(i) ==
    /\ Len(sect[i].top) = 1
    /\ sect[i].header = sect[i].top[1]
    /\ sect[i].cur = sect[i].offset + sect[i].structs[sect[i].header].len
    /\ "first" \in DOMAIN sect[i].structs[sect[i].header].f
    /\ GetBytes(sect[i], sect[i].header, "first") = Pack(4, NextAddress(i))

---------------------------------------------------------------------------
(* Order of the emitted segments *)

\* the one-to-one maps of 1..n onto itself
Perms(n) == { p \in [1..n -> 1..n] : \A k, l \in 1..n : p[k] = p[l] => k = l }

\* the k-th emitted segment of section i: the address of the k-th segment header
\* and the bytes of the k-th data block
Emitted(i, k) ==
    [ base |-> Unpack(GetBytes(sect[i], sect[i].segment_headers[k], "mem_addr")),
      data |-> GetBytes(sect[i], sect[i].segments[k], "data") ]

\* segment g of the binary of section i is an XIP segment
InXipGroup(i, g) == g.base >= XipVaddrOf(i)

\* C23: the emitted segment sequence of a ROM or app-binary section is a
\* permutation of the loadable segments of the binary in which every segment
\* with base >= the XIP virtual address comes before every segment with a base
\* below it, and the segments of the XIP group and those of the static group
\* keep the order they have in the binary.
C23_XipThenStatic ==
    \A i \in 1..NbSections : BinaryLaidOut(i) =>
        LET segs == sect[i].binary[1].segments
            n == Len(segs)
        IN  /\ Len(sect[i].segment_headers) = n
            /\ Len(sect[i].segments) = n
            /\ \E p \in Perms(n) :
                  /\ \A k \in 1..n :
                        /\ Emitted(i, k).base = segs[p[k]].base
                        /\ Emitted(i, k).data = segs[p[k]].data
                  /\ \A k, l \in 1..n : k < l =>
                        /\ InXipGroup(i, segs[p[l]]) => InXipGroup(i, segs[p[k]])
                        /\ InXipGroup(i, segs[p[k]]) = InXipGroup(i, segs[p[l]])
                           => p[k] < p[l]

\* a finished build of a binary whose first segment is static and whose second
\* is an XIP segment: the XIP segment is emitted first
C23_Witness ==
    \E i \in 1..NbSections :
        /\ BinaryLaidOut(i)
        /\ pc = "done"
        /\ Len(flash.sections[i].binary.segs) = 2
        /\ flash.sections[i].binary.segs[1].base < XipVaddrOf(i)
        /\ flash.sections[i].binary.segs[2].base >= XipVaddrOf(i)
        /\ Emitted(i, 1).base = flash.sections[i].binary.segs[2].base
        /\ Emitted(i, 2).base = flash.sections[i].binary.segs[1].base

---------------------------------------------------------------------------
(* Chaining of the seeded CRC *)

\* C24: the seeded CRC32 chains across buffers: for every seed s and buffers a
\* and b the CRC of b seeded with the CRC of a seeded with s is the CRC of
\* a ++ b seeded with s, the seeded primitive applying no final xor.
C24_CrcChains ==
    chain.stage = "second" =>
        SameInt(chain.crc, ComputeCrcInit(chain.a \o chain.b, chain.seed))

---------------------------------------------------------------------------
(* Block compression of app-binary segments *)

RECURSIVE ParseBlocks(_, _)
\* the stored blocks read back from the bytes of a data block, from position
\* pos on: the 4-byte prefix gives raw length - 1 and stored length - 1, the
\* payload follows; ok tells that prefix and payload lie within the bytes
ParseBlocks(bytes, pos) ==
    IF pos > Len(bytes) THEN <<>>
    ELSE IF pos + 3 > Len(bytes)
         THEN <<[ok |-> FALSE, raw_len |-> 0, stored_len |-> 0, payload |-> <<>>]>>
         ELSE LET raw_len == Unpack(SubSeq(bytes, pos, pos + 1)) + 1
                  stored_len == Unpack(SubSeq(bytes, pos + 2, pos + 3)) + 1
              IN  IF pos + 3 + stored_len > Len(bytes)
                  THEN <<[ok |-> FALSE, raw_len |-> raw_len,
                          stored_len |-> stored_len, payload |-> <<>>]>>
                  ELSE <<[ok |-> TRUE, raw_len |-> raw_len, stored_len |-> stored_len,
                          payload |-> SubSeq(bytes, pos + 4, pos + 3 + stored_len)]>>
                       \o ParseBlocks(bytes, pos + 4 + stored_len)

RECURSIVE RawBefore(_, _)
\* the raw bytes the blocks before block k stand for
RawBefore(B, k) == IF k = 1 THEN 0 ELSE RawBefore(B, k - 1) + B[k - 1].raw_len

\* the blocks B are the block-encoded form of the bytes raw, lz4[k] being what
\* lz4 returned for block k: as many blocks as raw has 64 KiB chunks, started
\* or full, raw lengths within 1..65536 that add up, and every block stored
\* compressed when that is shorter than the chunk and raw otherwise
BlockEncoded(B, raw, lz4) ==
    /\ Len(B) = (Len(raw) + BLOCK_SIZE - 1) \div BLOCK_SIZE
    /\ \A k \in 1..Len(B) :
          /\ B[k].ok
          /\ B[k].raw_len \in 1..BLOCK_SIZE
          /\ Len(B[k].payload) = B[k].stored_len
          /\ LET chunk == SubSeq(raw, RawBefore(B, k) + 1,
                                 RawBefore(B, k) + B[k].raw_len)
             IN  IF Len(lz4[k]) < B[k].raw_len
                 THEN B[k].stored_len = Len(lz4[k]) /\ B[k].payload = lz4[k]
                 ELSE B[k].stored_len = B[k].raw_len /\ B[k].payload = chunk
    /\ RawBefore(B, Len(B) + 1) = Len(raw)

---------------------------------------------------------------------------
(* Space taken by a WriteFs section *)

\* C29: after set_content of a WriteFs section with at least one file the
\* emitted blocks (file headers, payloads and the free-space block when there
\* is one) take no more than the section's size, and a free-space block, when
\* one is emitted, has a payload of non-negative size and ends at or before the
\* end of the section, for every remaining space and every alignment.
C29_BlocksWithinSection ==
    \A i \in 1..NbSections : FilesLaidOut(i) =>
        LET n == Len(flash.sections[i].files.list)
            end == sect[i].offset + GetSize(flash, sect, i)
        IN  /\ sect[i].cur <= end
            /\ Len(sect[i].file_headers) > n =>
                  LET free == sect[i].file_headers[n + 1]
                  IN  /\ Unpack(FileHeader(i, n + 1).size) >= 0
                      /\ StructEnd(i, free) - StructOffset(sect[i], free)
                             >= Unpack(FileHeader(i, n + 1).size)
                      /\ StructEnd(i, free) <= end

---------------------------------------------------------------------------
(* Properties of the builder *)

\* wait_completion has returned
WaitCompletionReturned == caller.ret >= 0

\* C26: wait_completion eventually returns under every interleaving of the
\* caller and the worker threads, every command ending and reporting
\* command_done: the drain loop after a failure does not block for ever, and no
\* worker stays blocked on the builder lock.
C26_WaitCompletionReturns == <>WaitCompletionReturned

\* the commands that some command triggers
Triggered == { c \in DOMAIN trigger_count : PrerequisitesOf(graph, c) # {} }

\* C27: once wait_completion has returned a failure count that is not zero, no
\* worker starts running a command that was not running at that moment, and
\* nb_pending_commands is never negative.
C27_NothingRunsAfterFailure ==
    /\ nb_pending_commands >= 0
    /\ caller.ret > 0 =>
          /\ hist.late = {}
          /\ \A w \in DOMAIN worker :
                worker[w].cmd # 0 => worker[w].cmd \in hist.in_hand

\* C28: a command that k commands trigger is pushed to the builder exactly
\* once, and only after all k have called command_done: never twice, never
\* before the last of them has entered command_done, and once when all of them
\* have left it.
C28_PushedOnceAfterAll ==
    \A c \in Triggered :
        /\ hist.pushed[c] <= 1
        /\ hist.pushed[c] >= 1 => PrerequisitesOf(graph, c) \subseteq hist.called
        /\ PrerequisitesOf(graph, c) \subseteq hist.left => hist.pushed[c] = 1

============================================================================
